---- MODULE Spec2Model ----
(***************************************************************************)
(* A model of the core of oear/My-Blog: the in-memory cache (MemoryCache,  *)
(* createCacheWrapper), the plugin manager (PluginManager, withTimeout),   *)
(* the document store (ArticleManager), the search engine (SearchEngine)   *)
(* and the top-level engine (BlogCore).                                    *)
(* Every component has its own specification over the shared variables;    *)
(* the variables of the other components stay at their initial values.     *)
(***************************************************************************)
EXTENDS Integers, Sequences, FiniteSets, TLC

VARIABLES
    now,            \* Date.now(), in clock units
    evictionPolicy, \* MemoryCache.evictionPolicy
    maxSize,        \* MemoryCache.maxSize
    cache,          \* MemoryCache.cache: the Map, as its entries in insertion order
    stats,          \* MemoryCache.stats
    last,           \* the last operation executed and what it returned
    inflight,       \* createCacheWrapper: the calls awaiting fn(key)
    config,         \* PluginManager.config: timeout, maxProcessors
    pm,             \* PluginManager: plugins, activePlugins, both chains, disposed
    calls,          \* registerPlugin / unregisterPlugin calls awaiting a plugin hook
    hung,           \* withTimeout: the hooks still pending after their timer fired
    cleanup,        \* PluginManager.cleanup: where the loop of a dispose stands
    proc,           \* PluginManager.processArticle: the call in progress
    search,         \* PluginManager.executeSearchExtensions: the call in progress
    store,          \* ArticleManager: articles (the Map), disposed
    engine,         \* SearchEngine: index and articles (the Maps), disposed
    core,           \* BlogCore: initialized, initializing, disposed
    loads,          \* BlogCore.initialize: the calls awaiting plugins.processArticle
    tasks,          \* BlogCore.cleanup / dispose: the calls awaiting
    peer,           \* a second BlogCore over the same global store and search engine
    emitter         \* EventEmitter: middlewares, listeners and the emit in progress

cacheVars == <<evictionPolicy, maxSize, cache, stats, inflight>>

chainVars == <<proc, search>>

pluginVars == <<config, pm, calls, hung, cleanup, chainVars>>

coreVars == <<store, engine, core, loads, tasks, peer, emitter>>

vars == <<now, last, cacheVars, pluginVars, coreVars>>

(***************************************************************************)
(* Bounds of the model.                                                    *)
(***************************************************************************)
MaxTime == 1
MaxLookups == 1
MaxWrapLookups == 2
MaxInflight == 1
MaxCalls == 2

\* The keys used by callers; "" is a legal Map key and is falsy in JavaScript.
Keys == {"", "A", "B"}
\* The keys of the eviction example of the design: A, B, then C
EvictKeys == {"A", "B", "C"}
\* The values stored through set directly
Values == {"v1"}
Undefined == "undefined"
\* What the wrapped function fn may resolve with
FnResults == {"v1", Undefined}
ExpireMsChoices == {0, 1}
MaxSizes == {2}
Policies == {"lru", "lfu", "fifo"}

\* Plugin names, and the objects handed to registerPlugin: a plugin "p" with a
\* deactivate hook, a plugin "q" without one, and for each name an object that
\* fails validatePlugin
PluginNames == {"p", "q"}
PluginInputs ==
    {[name |-> "p", valid |-> TRUE, deactivate |-> TRUE],
     [name |-> "q", valid |-> TRUE, deactivate |-> FALSE],
     [name |-> "p", valid |-> FALSE, deactivate |-> FALSE],
     [name |-> "q", valid |-> FALSE, deactivate |-> FALSE]}
\* The names handed to unregisterPlugin; "" fails its non-empty check
NameInputs == PluginNames \cup {""}
\* How many processors an activation hook registers through its context; it
\* registers as many search extensions
HookRegistrations == {0, 1}
Timeouts == {1}
ProcessorLimits == {2}
\* The functions handed to registerArticleProcessor / registerSearchExtension;
\* an activation hook registers HookFn
Fns == {"f", "g"}
HookFn == "f"
NotAFunction == "notfn"
FnInputs == Fns \cup {NotAFunction}
\* The documents handed to processArticle: a document with id "a", and a value
\* whose id is no string. trail lists the processors that have rewritten it.
ArticleInputs == {[id |-> "a", trail |-> <<>>], [id |-> Undefined, trail |-> <<>>]}
\* What an invoked processor does: it returns the document rewritten, returns
\* a rewritten document under another id, returns no document, or throws
\* (rejects); a processor that never settles is left to the timer
Outcomes == {"ok", "otherId", "invalid", "throw"}
OtherId == "b"
\* The queries handed to executeSearchExtensions: a string, and a value that
\* is no string
QueryInputs == {"x", Undefined}
\* What an invoked search extension does: it returns a value, returns
\* undefined, or throws (rejects); one that never settles is left to the timer
ExtensionOutcomes == {"value", "undefined", "throw"}
\* The cap of the chains where the chains themselves are exercised
ChainLimits == {3}
\* No processArticle / executeSearchExtensions call in progress
ChainIdle == [phase |-> "idle", shared |-> FALSE, array |-> <<>>, i |-> 0,
              remaining |-> 0]

\* The defaults of SearchEngineConfig
DefaultMaxIndexSize == 100000
DefaultMaxResults == 20
DefaultMinSearchLength == 2
\* createArticleManager(): global tells whether globalArticleManager still
\* holds the instance
NewArticleManager ==
    [articles |-> <<>>, disposed |-> FALSE, global |-> TRUE, includeDrafts |-> FALSE]
\* createSearchEngine({maxIndexSize}): global tells whether globalSearchEngine
\* still holds the instance
NewSearchEngine(maxIndexSize) ==
    [index |-> <<>>, articles |-> <<>>, disposed |-> FALSE,
     maxIndexSize |-> maxIndexSize, global |-> TRUE,
     maxResults |-> DefaultMaxResults, minSearchLength |-> DefaultMinSearchLength]
\* new EventEmitter(): no middleware, no listener, no emit made
NewEmitter ==
    [middlewares |-> <<>>, listeners |-> 0, phase |-> "idle", index |-> 0,
     threads |-> <<>>, cur |-> 0, log |-> <<>>]
\* No second BlogCore was constructed
NoPeer == [built |-> FALSE, disposed |-> FALSE, phase |-> "idle", op |-> ""]
\* new BlogCore(): no initialize, cleanup or dispose call in progress
NewBlogCore ==
    /\ core = [initialized |-> FALSE, initializing |-> FALSE, disposed |-> FALSE]
    /\ loads = <<>>
    /\ tasks = <<>>
    /\ peer = NoPeer
    /\ emitter = NewEmitter
\* The store, the search engine and the engine as constructed
CoreIdle ==
    /\ store = NewArticleManager
    /\ engine = NewSearchEngine(DefaultMaxIndexSize)
    /\ NewBlogCore

\* The plugin manager while only the cache is exercised
PluginIdle ==
    /\ config = [timeout |-> 1, maxProcessors |-> 2]
    /\ pm = [plugins |-> <<>>, activePlugins |-> <<>>, articleProcessors |-> <<>>,
             searchExtensions |-> <<>>, disposed |-> FALSE]
    /\ calls = <<>>
    /\ hung = {}
    /\ cleanup = [phase |-> "idle", name |-> "", queue |-> <<>>, remaining |-> 0]
    /\ proc = ChainIdle
    /\ search = ChainIdle

(***************************************************************************)
(* Map helpers: the Map is a sequence of <<key, entry>> in insertion order.*)
(***************************************************************************)
\* One statement after another: the value of the first is computed once and
\* handed to the rest
Then(value, Rest(_)) == CHOOSE result \in {Rest(v) : v \in {value}} : TRUE

CacheKeys(c) == {c[i].key : i \in 1..Len(c)}

MapHas(c, k) == k \in CacheKeys(c)

MapIndex(c, k) == CHOOSE i \in 1..Len(c) : c[i].key = k

MapGet(c, k) == c[MapIndex(c, k)]

\* Map.delete: the other entries keep their relative order
MapDelete(c, k) == SelectSeq(c, LAMBDA e : e.key # k)

\* Map.set: an existing key keeps its position, a new key goes last
MapSet(c, k, entry) ==
    IF MapHas(c, k)
    THEN [i \in 1..Len(c) |-> IF c[i].key = k THEN entry ELSE c[i]]
    ELSE Append(c, entry)

Entry(k, v, t, e) ==
    [key |-> k, value |-> v, expiresAt |-> t + e, createdAt |-> t, hits |-> 0]

\* A faulty variant of IsExpired: an entry counts as expired at its expiry time
IsExpiredInclusive(entry, t) == entry.expiresAt <= t

\* entry.expiresAt < Date.now()
IsExpired(entry, t) == entry.expiresAt < t

(***************************************************************************)
(* MemoryCache.evict                                                       *)
(***************************************************************************)
\* The loop "if (field < best) { best = field; keyToEvict = key }" over the
\* entries from position i on; keyToEvict is the position of the chosen entry,
\* 0 for undefined.
RECURSIVE ScanLowest(_, _, _, _, _)
ScanLowest(c, field, i, best, keyToEvict) ==
    IF i > Len(c) THEN keyToEvict
    ELSE IF c[i][field] < best
         THEN ScanLowest(c, field, i + 1, c[i][field], i)
         ELSE ScanLowest(c, field, i + 1, best, keyToEvict)

\* A number above every hit counter, standing for Infinity
Infinity(c) == 1 + Len(c) + MaxLookups + MaxWrapLookups

KeyToEvict(c, t, policy) ==
    CASE policy = "lru"  -> ScanLowest(c, "expiresAt", 1, t, 0)
      [] policy = "lfu"  -> ScanLowest(c, "hits", 1, Infinity(c), 0)
      [] policy = "fifo" -> ScanLowest(c, "createdAt", 1, t, 0)

\* if (keyToEvict): undefined and the empty string are both falsy
Truthy(c, keyToEvict) == keyToEvict # 0 /\ c[keyToEvict].key # ""

Evict(c, t, policy) ==
    IF Len(c) = 0 THEN c
    ELSE LET keyToEvict == KeyToEvict(c, t, policy)
         IN IF Truthy(c, keyToEvict) THEN MapDelete(c, c[keyToEvict].key) ELSE c

(***************************************************************************)
(* MemoryCache operations                                                  *)
(***************************************************************************)
\* A faulty variant of SetResult: it evicts whenever the cache is full, even
\* when the key is present already
SetResultNoHasCheck(c, k, v, e, t, size, policy) ==
    LET c1 == IF Len(c) >= size THEN Evict(c, t, policy) ELSE c
    IN MapSet(c1, k, Entry(k, v, t, e))

\* The Map after set(k, v, e) at time t
SetResult(c, k, v, e, t, size, policy) ==
    LET c1 == IF Len(c) >= size /\ ~MapHas(c, k) THEN Evict(c, t, policy) ELSE c
    IN MapSet(c1, k, Entry(k, v, t, e))

\* The Map after get(k) at time t
GetCache(c, k, t) ==
    IF ~MapHas(c, k) THEN c
    ELSE IF IsExpired(MapGet(c, k), t) THEN MapDelete(c, k)
    ELSE MapSet(c, k, [MapGet(c, k) EXCEPT !.hits = @ + 1])

\* What get(k) returns at time t
GetValue(c, k, t) ==
    IF ~MapHas(c, k) THEN Undefined
    ELSE IF IsExpired(MapGet(c, k), t) THEN Undefined
    ELSE MapGet(c, k).value

\* The Map after has(k) at time t
HasCache(c, k, t) ==
    IF MapHas(c, k) /\ IsExpired(MapGet(c, k), t) THEN MapDelete(c, k) ELSE c

\* What has(k) returns at time t
HasValue(c, k, t) ==
    IF ~MapHas(c, k) THEN "false"
    ELSE IF IsExpired(MapGet(c, k), t) THEN "false"
    ELSE "true"

\* The branch get(k) or has(k) takes
LookupPath(c, k, t) ==
    IF ~MapHas(c, k) THEN "miss"
    ELSE IF IsExpired(MapGet(c, k), t) THEN "expired"
    ELSE "hit"

\* The branch set(k, ...) takes
SetPath(c, k, size) ==
    IF MapHas(c, k) THEN "update"
    ELSE IF Len(c) >= size THEN "evict" ELSE "insert"

GetIsHit(c, k, t) == MapHas(c, k) /\ ~IsExpired(MapGet(c, k), t)

GetStats(s, c, k, t) ==
    IF GetIsHit(c, k, t) THEN [s EXCEPT !.hits = @ + 1]
    ELSE [s EXCEPT !.misses = @ + 1]

\* A faulty variant of SweepResult: it also removes the entries expiring now
SweepResultInclusive(c, t) == SelectSeq(c, LAMBDA e : ~(e.expiresAt <= t))

\* The sweep callback of startCleanupInterval
SweepResult(c, t) == SelectSeq(c, LAMBDA e : ~(e.expiresAt < t))

Set(k, v, e) ==
    /\ cache' = SetResult(cache, k, v, e, now, maxSize, evictionPolicy)
    /\ last' = [op |-> "set", path |-> SetPath(cache, k, maxSize), ret |-> "void"]
    /\ UNCHANGED <<now, evictionPolicy, maxSize, stats, inflight>>
    /\ UNCHANGED <<pluginVars, coreVars>>

Get(k) ==
    /\ stats.hits + stats.misses < MaxLookups
    /\ cache' = GetCache(cache, k, now)
    /\ stats' = GetStats(stats, cache, k, now)
    /\ last' = [op |-> "get", path |-> LookupPath(cache, k, now),
                ret |-> GetValue(cache, k, now)]
    /\ UNCHANGED <<now, evictionPolicy, maxSize, inflight>>
    /\ UNCHANGED <<pluginVars, coreVars>>

Has(k) ==
    /\ cache' = HasCache(cache, k, now)
    /\ last' = [op |-> "has", path |-> LookupPath(cache, k, now),
                ret |-> HasValue(cache, k, now)]
    /\ UNCHANGED <<now, evictionPolicy, maxSize, stats, inflight>>
    /\ UNCHANGED <<pluginVars, coreVars>>

Delete(k) ==
    /\ cache' = MapDelete(cache, k)
    /\ last' = [op |-> "delete", path |-> "", ret |-> "void"]
    /\ UNCHANGED <<now, evictionPolicy, maxSize, stats, inflight>>
    /\ UNCHANGED <<pluginVars, coreVars>>

Clear ==
    /\ cache' = <<>>
    /\ stats' = [hits |-> 0, misses |-> 0]
    /\ last' = [op |-> "clear", path |-> "", ret |-> "void"]
    /\ UNCHANGED <<now, evictionPolicy, maxSize, inflight>>
    /\ UNCHANGED <<pluginVars, coreVars>>

Sweep ==
    /\ cache' = SweepResult(cache, now)
    /\ last' = [op |-> "sweep",
                path |-> IF Len(SweepResult(cache, now)) < Len(cache) THEN "cleaned"
                         ELSE "",
                ret |-> "void"]
    /\ UNCHANGED <<now, evictionPolicy, maxSize, stats, inflight>>
    /\ UNCHANGED <<pluginVars, coreVars>>

\* The clock advances
Tick ==
    /\ now < MaxTime
    /\ now' = now + 1
    /\ last' = [op |-> "tick", path |-> "", ret |-> "void"]
    /\ UNCHANGED <<evictionPolicy, maxSize, cache, stats, inflight>>
    /\ UNCHANGED <<pluginVars, coreVars>>

CacheInit ==
    /\ now = 0
    /\ evictionPolicy \in Policies
    /\ maxSize \in MaxSizes
    /\ cache = <<>>
    /\ stats = [hits |-> 0, misses |-> 0]
    /\ last = [op |-> "new", path |-> "", ret |-> "void"]
    /\ inflight = <<>>
    /\ PluginIdle
    /\ CoreIdle

CacheNext ==
    \/ \E k \in Keys, v \in Values, e \in ExpireMsChoices : Set(k, v, e)
    \/ \E k \in Keys : Get(k)
    \/ \E k \in Keys : Has(k)
    \/ \E k \in Keys : Delete(k)
    \/ Clear
    \/ Sweep
    \/ Tick

CacheSpec == CacheInit /\ [][CacheNext]_vars

\* The cache filled and read under the keys of the eviction example
EvictNext ==
    \/ \E k \in EvictKeys, v \in Values, e \in ExpireMsChoices : Set(k, v, e)
    \/ \E k \in EvictKeys : Get(k)
    \/ \E k \in EvictKeys : Has(k)
    \/ \E k \in EvictKeys : Delete(k)
    \/ Clear
    \/ Sweep
    \/ Tick

EvictSpec == CacheInit /\ [][EvictNext]_vars

(***************************************************************************)
(* createCacheWrapper: the function it returns, over the cache above       *)
(***************************************************************************)
\* inflight without its call at position i
Settled(q, i) == [j \in 1..(Len(q) - 1) |-> IF j < i THEN q[j] ELSE q[j + 1]]

\* cached !== undefined
IsCached(cached) == cached # Undefined

\* The wrapper built with expiry e is called with key k: it reads the cache
\* and, on a miss, invokes fn(k) and awaits it
WrapCall(k, e) ==
    /\ stats.hits + stats.misses < MaxWrapLookups
    /\ IsCached(GetValue(cache, k, now)) \/ Len(inflight) < MaxInflight
    /\ cache' = GetCache(cache, k, now)
    /\ stats' = GetStats(stats, cache, k, now)
    /\ IF IsCached(GetValue(cache, k, now))
       THEN /\ inflight' = inflight
            /\ last' = [op |-> "wrap", path |-> "cached",
                        ret |-> GetValue(cache, k, now)]
       ELSE /\ inflight' = Append(inflight, [key |-> k, expireMs |-> e])
            /\ last' = [op |-> "wrap", path |-> "invoke", ret |-> "pending"]
    /\ UNCHANGED <<now, evictionPolicy, maxSize>>
    /\ UNCHANGED <<pluginVars, coreVars>>

\* fn(key) of the call at position i resolves with r: the result is cached
FnResolve(i, r) ==
    /\ i \in 1..Len(inflight)
    /\ cache' = SetResult(cache, inflight[i].key, r, inflight[i].expireMs, now,
                          maxSize, evictionPolicy)
    /\ inflight' = Settled(inflight, i)
    /\ last' = [op |-> "resolve", path |-> SetPath(cache, inflight[i].key, maxSize),
                ret |-> r]
    /\ UNCHANGED <<now, evictionPolicy, maxSize, stats>>
    /\ UNCHANGED <<pluginVars, coreVars>>

\* fn(key) of the call at position i rejects: the wrapper rejects too
FnReject(i) ==
    /\ i \in 1..Len(inflight)
    /\ inflight' = Settled(inflight, i)
    /\ last' = [op |-> "reject", path |-> "", ret |-> "error"]
    /\ UNCHANGED <<now, evictionPolicy, maxSize, cache, stats>>
    /\ UNCHANGED <<pluginVars, coreVars>>

WrapNext ==
    \/ \E k \in Keys, e \in ExpireMsChoices : WrapCall(k, e)
    \/ \E i \in 1..MaxInflight, r \in FnResults : FnResolve(i, r)
    \/ \E i \in 1..MaxInflight : FnReject(i)
    \/ \E k \in Keys : Delete(k)
    \/ Sweep
    \/ Tick

WrapSpec == CacheInit /\ [][WrapNext]_vars

(***************************************************************************)
(* PluginManager                                                           *)
(***************************************************************************)
\* A Set in insertion order
SetAdd(q, x) == IF \E i \in 1..Len(q) : q[i] = x THEN q ELSE Append(q, x)

SetDelete(q, x) == SelectSeq(q, LAMBDA y : y # x)

DefaultTimeout == 10000

DefaultMaxProcessors == 100

\* this.config.timeout || 10000, in clock units: what the timer of withTimeout
\* starts from
Timeout(cfg) == IF cfg.timeout = 0 THEN DefaultTimeout ELSE cfg.timeout

\* this.config.maxProcessors || 100
ProcessorLimit(cfg) ==
    IF cfg.maxProcessors = 0 THEN DefaultMaxProcessors ELSE cfg.maxProcessors

\* validatePlugin
ValidatePlugin(plugin) == plugin.valid

\* this.plugins.has(name)
IsRegistered(m, name) == MapHas(m.plugins, name)

\* A faulty variant of RegisterArticleProcessorResult: the cap is not applied
RegisterArticleProcessorNoCap(m, pluginName, fn, cfg) ==
    [m EXCEPT !.articleProcessors = Append(@, [pluginName |-> pluginName, fn |-> fn])]

\* The manager after registerArticleProcessor(pluginName, fn) on a manager
\* that is not disposed
RegisterArticleProcessorResult(m, pluginName, fn, cfg) ==
    IF Len(m.articleProcessors) >= ProcessorLimit(cfg) THEN m
    ELSE [m EXCEPT !.articleProcessors =
                       Append(@, [pluginName |-> pluginName, fn |-> fn])]

\* The manager after registerSearchExtension(pluginName, fn) on a manager
\* that is not disposed
RegisterSearchExtensionResult(m, pluginName, fn, cfg) ==
    IF Len(m.searchExtensions) >= ProcessorLimit(cfg) THEN m
    ELSE [m EXCEPT !.searchExtensions =
                       Append(@, [pluginName |-> pluginName, fn |-> fn])]

\* The synchronous part of plugin.activate(context): the hook registers np
\* processors and ne search extensions through its context
RECURSIVE ActivateProcessors(_, _, _, _)
ActivateProcessors(m, name, np, cfg) ==
    IF np = 0 THEN m
    ELSE ActivateProcessors(RegisterArticleProcessorResult(m, name, HookFn, cfg),
                            name, np - 1, cfg)

RECURSIVE ActivateExtensions(_, _, _, _)
ActivateExtensions(m, name, ne, cfg) ==
    IF ne = 0 THEN m
    ELSE ActivateExtensions(RegisterSearchExtensionResult(m, name, HookFn, cfg),
                            name, ne - 1, cfg)

Activate(m, name, np, ne, cfg) ==
    ActivateExtensions(ActivateProcessors(m, name, np, cfg), name, ne, cfg)

\* A faulty variant of Activated: the name is not added to the active set
ActivatedNotActive(m, plugin) ==
    [m EXCEPT !.plugins = MapSet(@, plugin.name, [key |-> plugin.name, value |-> plugin])]

\* registerPlugin after the activation settled in time: plugins.set, add
Activated(m, plugin) ==
    [m EXCEPT !.plugins = MapSet(@, plugin.name, [key |-> plugin.name, value |-> plugin]),
              !.activePlugins = SetAdd(@, plugin.name)]

\* A faulty variant of Deactivated: both chains are emptied
DeactivatedClearsChains(m, name) ==
    [m EXCEPT !.plugins = MapDelete(@, name),
              !.activePlugins = SetDelete(@, name),
              !.articleProcessors = <<>>,
              !.searchExtensions = <<>>]

\* unregisterPlugin after the deactivation: the plugin and its chain entries go
Deactivated(m, name) ==
    [m EXCEPT !.plugins = MapDelete(@, name),
              !.activePlugins = SetDelete(@, name),
              !.articleProcessors = SelectSeq(@, LAMBDA p : p.pluginName # name),
              !.searchExtensions = SelectSeq(@, LAMBDA p : p.pluginName # name)]

\* A faulty variant of RegisterPath: the duplicate check is missing
RegisterPathNoDuplicateCheck(m, plugin) ==
    IF m.disposed THEN "disposed"
    ELSE IF ~ValidatePlugin(plugin) THEN "invalid"
    ELSE "activating"

\* The branch registerPlugin(plugin) takes before it awaits
RegisterPath(m, plugin) ==
    IF m.disposed THEN "disposed"
    ELSE IF ~ValidatePlugin(plugin) THEN "invalid"
    ELSE IF IsRegistered(m, plugin.name) THEN "duplicate"
    ELSE "activating"

\* registerPlugin(plugin) up to its await; the hook registers n processors
\* and n search extensions while it runs
RegisterPlugin(plugin, n) ==
    LET path == RegisterPath(pm, plugin) IN
    /\ path = "activating" => Len(calls) < MaxCalls
    /\ IF path = "activating"
       THEN /\ pm' = Activate(pm, plugin.name, n, n, config)
            /\ calls' = Append(calls, [kind |-> "register", plugin |-> plugin,
                                       remaining |-> Timeout(config)])
       ELSE UNCHANGED <<pm, calls>>
    /\ last' = [op |-> "registerPlugin", path |-> path,
                ret |-> CASE path = "activating" -> "pending"
                          [] path = "duplicate" -> "resolved"
                          [] OTHER -> "rejected"]
    /\ UNCHANGED <<now, hung, config, cleanup, cacheVars, chainVars, coreVars>>

\* The activation hook of call i settles successfully before the timer
ActivateResolved(i) ==
    /\ i \in 1..Len(calls)
    /\ calls[i].kind = "register"
    /\ pm' = Activated(pm, calls[i].plugin)
    /\ calls' = Settled(calls, i)
    /\ last' = [op |-> "registerPlugin", path |-> "activated", ret |-> "resolved"]
    /\ UNCHANGED <<now, hung, config, cleanup, cacheVars, chainVars, coreVars>>

\* The activation hook of call i throws or rejects
ActivateRejected(i) ==
    /\ i \in 1..Len(calls)
    /\ calls[i].kind = "register"
    /\ calls' = Settled(calls, i)
    /\ last' = [op |-> "registerPlugin", path |-> "failed", ret |-> "rejected"]
    /\ UNCHANGED <<now, hung, config, pm, cleanup, cacheVars, chainVars, coreVars>>

\* A faulty variant of ActivateTimeout: the plugin is registered all the same
ActivateTimeoutKeepsPlugin(i) ==
    /\ i \in 1..Len(calls)
    /\ calls[i].kind = "register"
    /\ calls[i].remaining = 0
    /\ pm' = Activated(pm, calls[i].plugin)
    /\ calls' = Settled(calls, i)
    /\ last' = [op |-> "registerPlugin", path |-> "timeout", ret |-> "rejected"]
    /\ UNCHANGED <<now, hung, config, cleanup, cacheVars, chainVars, coreVars>>

\* withTimeout: the timer of call i fires while its hook is still pending, so
\* the race rejects and registerPlugin throws; the promise of the hook is left
\* behind, and late tells whether it settles at all afterwards
ActivateDeadline(i, late) ==
    /\ i \in 1..Len(calls)
    /\ calls[i].kind = "register"
    /\ calls[i].remaining = 0
    /\ calls' = Settled(calls, i)
    /\ hung' = IF late
               THEN hung \cup {[kind |-> "register", plugin |-> calls[i].plugin]}
               ELSE hung
    /\ last' = [op |-> "registerPlugin", path |-> "timeout", ret |-> "rejected"]
    /\ UNCHANGED <<now, config, pm, cleanup, cacheVars, chainVars, coreVars>>

\* The timer of call i fires on an activation hook that never settles
ActivateTimeout(i) == ActivateDeadline(i, FALSE)

\* A call iterating over a chain keeps the array it started on: when the
\* manager assigns a new array to the chain (filter, []), the call in progress
\* goes on over the old one and sees no later push
Detach(r, array) ==
    IF r.phase # "idle" /\ r.shared
    THEN [r EXCEPT !.shared = FALSE, !.array = array]
    ELSE r

\* Both chains are assigned new arrays if replaced holds
DetachChains(replaced) ==
    /\ proc' = IF replaced THEN Detach(proc, pm.articleProcessors) ELSE proc
    /\ search' = IF replaced THEN Detach(search, pm.searchExtensions) ELSE search

\* The branch unregisterPlugin(name) takes before it awaits
UnregisterPath(m, name) ==
    IF m.disposed THEN "disposed"
    ELSE IF name = "" THEN "invalid"
    ELSE IF ~IsRegistered(m, name) THEN "notfound"
    ELSE IF MapGet(m.plugins, name).value.deactivate THEN "deactivating"
    ELSE "deactivated"

\* unregisterPlugin(name) up to its await
UnregisterPlugin(name) ==
    LET path == UnregisterPath(pm, name) IN
    /\ path = "deactivating" => Len(calls) < MaxCalls
    /\ pm' = IF path = "deactivated" THEN Deactivated(pm, name) ELSE pm
    /\ calls' = IF path = "deactivating"
                THEN Append(calls, [kind |-> "unregister",
                                    plugin |-> MapGet(pm.plugins, name).value,
                                    remaining |-> Timeout(config)])
                ELSE calls
    /\ last' = [op |-> "unregisterPlugin", path |-> path,
                ret |-> CASE path = "deactivating" -> "pending"
                          [] path \in {"notfound", "deactivated"} -> "resolved"
                          [] OTHER -> "rejected"]
    /\ DetachChains(path = "deactivated")
    /\ UNCHANGED <<now, hung, config, cleanup, cacheVars, coreVars>>

\* The deactivation hook of call i settles successfully before the timer
DeactivateResolved(i) ==
    /\ i \in 1..Len(calls)
    /\ calls[i].kind = "unregister"
    /\ pm' = Deactivated(pm, calls[i].plugin.name)
    /\ calls' = Settled(calls, i)
    /\ last' = [op |-> "unregisterPlugin", path |-> "deactivated", ret |-> "resolved"]
    /\ DetachChains(TRUE)
    /\ UNCHANGED <<now, hung, config, cleanup, cacheVars, coreVars>>

\* The deactivation hook of call i throws or rejects
DeactivateRejected(i) ==
    /\ i \in 1..Len(calls)
    /\ calls[i].kind = "unregister"
    /\ calls' = Settled(calls, i)
    /\ last' = [op |-> "unregisterPlugin", path |-> "failed", ret |-> "rejected"]
    /\ UNCHANGED <<now, hung, config, pm, cleanup, cacheVars, chainVars, coreVars>>

\* withTimeout: the timer of call i fires while its hook is still pending
DeactivateTimeout(i) ==
    /\ i \in 1..Len(calls)
    /\ calls[i].kind = "unregister"
    /\ calls[i].remaining = 0
    /\ calls' = Settled(calls, i)
    /\ last' = [op |-> "unregisterPlugin", path |-> "timeout", ret |-> "rejected"]
    /\ UNCHANGED <<now, hung, config, pm, cleanup, cacheVars, chainVars, coreVars>>

CleanupIdle == [phase |-> "idle", name |-> "", queue |-> <<>>, remaining |-> 0]

\* cleanup() from the head of its loop over pluginNames, up to its next await:
\* either the loop is over (both chains are emptied and dispose sets disposed)
\* or unregisterPlugin(name) runs up to its own await
CleanupLoop(m, pluginNames, cfg) ==
    IF pluginNames = <<>>
    THEN [pm |-> [m EXCEPT !.articleProcessors = <<>>, !.searchExtensions = <<>>,
                           !.disposed = TRUE],
          cleanup |-> CleanupIdle,
          replaced |-> TRUE,
          last |-> [op |-> "dispose", path |-> "disposed", ret |-> "resolved"]]
    ELSE LET name == Head(pluginNames)
             path == UnregisterPath(m, name)
         IN [pm |-> IF path = "deactivated" THEN Deactivated(m, name) ELSE m,
             cleanup |-> [phase |-> IF path = "deactivating" THEN "hook" ELSE "await",
                          name |-> name, queue |-> Tail(pluginNames),
                          remaining |-> IF path = "deactivating" THEN Timeout(cfg)
                                        ELSE 0],
             replaced |-> path = "deactivated",
             last |-> [op |-> "cleanup", path |-> path, ret |-> "pending"]]

\* dispose(): a no-op once disposed, else cleanup() up to its first await
Dispose ==
    /\ cleanup.phase = "idle"
    /\ IF pm.disposed
       THEN /\ UNCHANGED <<pm, cleanup>>
            /\ last' = [op |-> "dispose", path |-> "noop", ret |-> "resolved"]
            /\ UNCHANGED chainVars
       ELSE LET r == CleanupLoop(pm, pm.activePlugins, config)
            IN /\ pm' = r.pm /\ cleanup' = r.cleanup /\ last' = r.last
               /\ DetachChains(r.replaced)
    /\ UNCHANGED <<now, hung, config, calls, cacheVars, coreVars>>

\* cleanup() resumes after an unregisterPlugin that returned without a hook
CleanupResume ==
    /\ cleanup.phase = "await"
    /\ LET r == CleanupLoop(pm, cleanup.queue, config)
       IN /\ pm' = r.pm /\ cleanup' = r.cleanup /\ last' = r.last
          /\ DetachChains(r.replaced)
    /\ UNCHANGED <<now, hung, config, calls, cacheVars, coreVars>>

\* The deactivation hook awaited by cleanup() settles successfully in time
CleanupDeactivateResolved ==
    /\ cleanup.phase = "hook"
    /\ LET r == CleanupLoop(Deactivated(pm, cleanup.name), cleanup.queue, config)
       IN pm' = r.pm /\ cleanup' = r.cleanup /\ last' = r.last
    /\ DetachChains(TRUE)
    /\ UNCHANGED <<now, hung, config, calls, cacheVars, coreVars>>

\* The deactivation hook awaited by cleanup() throws or rejects: caught, logged
CleanupDeactivateRejected ==
    /\ cleanup.phase = "hook"
    /\ LET r == CleanupLoop(pm, cleanup.queue, config)
       IN /\ pm' = r.pm /\ cleanup' = r.cleanup /\ last' = r.last
          /\ DetachChains(r.replaced)
    /\ UNCHANGED <<now, hung, config, calls, cacheVars, coreVars>>

\* The deactivation hook awaited by cleanup() times out: caught, logged
CleanupDeactivateTimeout ==
    /\ cleanup.phase = "hook"
    /\ cleanup.remaining = 0
    /\ LET r == CleanupLoop(pm, cleanup.queue, config)
       IN /\ pm' = r.pm /\ cleanup' = r.cleanup /\ last' = r.last
          /\ DetachChains(r.replaced)
    /\ UNCHANGED <<now, hung, config, calls, cacheVars, coreVars>>

\* One clock unit passes for every pending timer of withTimeout; a timer that
\* is due fires before more time passes
PluginTick ==
    /\ \A i \in 1..Len(calls) : calls[i].remaining > 0
    /\ cleanup.phase = "hook" => cleanup.remaining > 0
    /\ proc.phase = "await" => proc.remaining > 0
    /\ search.phase = "await" => search.remaining > 0
    /\ calls' = [i \in 1..Len(calls) |-> [calls[i] EXCEPT !.remaining = @ - 1]]
    /\ cleanup' = IF cleanup.phase = "hook"
                  THEN [cleanup EXCEPT !.remaining = @ - 1] ELSE cleanup
    /\ proc' = IF proc.phase = "await" THEN [proc EXCEPT !.remaining = @ - 1]
               ELSE proc
    /\ search' = IF search.phase = "await" THEN [search EXCEPT !.remaining = @ - 1]
                 ELSE search
    /\ UNCHANGED <<now, last, hung, config, pm, cacheVars, coreVars>>

PluginInit ==
    /\ now = 0
    /\ last = [op |-> "new", path |-> "", ret |-> "void"]
    /\ evictionPolicy = "lru"
    /\ maxSize \in MaxSizes
    /\ cache = <<>>
    /\ stats = [hits |-> 0, misses |-> 0]
    /\ inflight = <<>>
    /\ config \in [timeout : Timeouts, maxProcessors : ProcessorLimits]
    /\ pm = [plugins |-> <<>>, activePlugins |-> <<>>, articleProcessors |-> <<>>,
             searchExtensions |-> <<>>, disposed |-> FALSE]
    /\ calls = <<>>
    /\ hung = {}
    /\ cleanup = CleanupIdle
    /\ proc = ChainIdle
    /\ search = ChainIdle
    /\ CoreIdle

PluginNext ==
    \/ \E plugin \in PluginInputs, n \in HookRegistrations : RegisterPlugin(plugin, n)
    \/ \E i \in 1..MaxCalls : ActivateResolved(i)
    \/ \E i \in 1..MaxCalls : ActivateRejected(i)
    \/ \E i \in 1..MaxCalls : ActivateTimeout(i)
    \/ \E name \in NameInputs : UnregisterPlugin(name)
    \/ \E i \in 1..MaxCalls : DeactivateResolved(i)
    \/ \E i \in 1..MaxCalls : DeactivateRejected(i)
    \/ \E i \in 1..MaxCalls : DeactivateTimeout(i)
    \/ Dispose
    \/ CleanupResume
    \/ CleanupDeactivateResolved
    \/ CleanupDeactivateRejected
    \/ CleanupDeactivateTimeout
    \/ PluginTick

PluginSpec == PluginInit /\ [][PluginNext]_vars

(***************************************************************************)
(* PluginManager: the two chains, registered into directly                 *)
(***************************************************************************)
\* The branch registerArticleProcessor / registerSearchExtension takes, chain
\* being the chain registered into
RegisterChainPath(m, chain, fn, cfg) ==
    IF m.disposed THEN "disposed"
    ELSE IF fn = NotAFunction THEN "invalid"
    ELSE IF Len(chain) >= ProcessorLimit(cfg) THEN "ignored"
    ELSE "registered"

RegisterArticleProcessor(pluginName, fn) ==
    LET path == RegisterChainPath(pm, pm.articleProcessors, fn, config) IN
    /\ pm' = IF path \in {"ignored", "registered"}
             THEN RegisterArticleProcessorResult(pm, pluginName, fn, config)
             ELSE pm
    /\ last' = [op |-> "registerArticleProcessor", path |-> path,
                ret |-> IF path \in {"ignored", "registered"} THEN "void"
                        ELSE "rejected"]
    /\ UNCHANGED <<now, hung, config, calls, cleanup, cacheVars, chainVars, coreVars>>

RegisterSearchExtension(pluginName, fn) ==
    LET path == RegisterChainPath(pm, pm.searchExtensions, fn, config) IN
    /\ pm' = IF path \in {"ignored", "registered"}
             THEN RegisterSearchExtensionResult(pm, pluginName, fn, config)
             ELSE pm
    /\ last' = [op |-> "registerSearchExtension", path |-> path,
                ret |-> IF path \in {"ignored", "registered"} THEN "void"
                        ELSE "rejected"]
    /\ UNCHANGED <<now, hung, config, calls, cleanup, cacheVars, chainVars, coreVars>>

\* A manager on which the plugins p (with a deactivation hook) and q (without)
\* were registered, their activation hooks registering nothing
BothRegistered ==
    [plugins |-> <<[key |-> "p", value |-> [name |-> "p", valid |-> TRUE,
                                            deactivate |-> TRUE]],
                   [key |-> "q", value |-> [name |-> "q", valid |-> TRUE,
                                            deactivate |-> FALSE]]>>,
     activePlugins |-> <<"p", "q">>,
     articleProcessors |-> <<>>, searchExtensions |-> <<>>, disposed |-> FALSE]

ChainInit ==
    /\ now = 0
    /\ last = [op |-> "new", path |-> "", ret |-> "void"]
    /\ evictionPolicy = "lru"
    /\ maxSize \in MaxSizes
    /\ cache = <<>>
    /\ stats = [hits |-> 0, misses |-> 0]
    /\ inflight = <<>>
    /\ config \in [timeout : Timeouts, maxProcessors : ChainLimits]
    /\ pm = BothRegistered
    /\ calls = <<>>
    /\ hung = {}
    /\ cleanup = CleanupIdle
    /\ proc = ChainIdle
    /\ search = ChainIdle
    /\ CoreIdle

ChainNext ==
    \/ \E name \in PluginNames, fn \in FnInputs : RegisterArticleProcessor(name, fn)
    \/ \E name \in PluginNames, fn \in {HookFn, NotAFunction} :
            RegisterSearchExtension(name, fn)
    \/ \E name \in NameInputs : UnregisterPlugin(name)
    \/ \E i \in 1..MaxCalls : DeactivateResolved(i)
    \/ \E i \in 1..MaxCalls : DeactivateRejected(i)
    \/ \E i \in 1..MaxCalls : DeactivateTimeout(i)
    \/ PluginTick

ChainSpec == ChainInit /\ [][ChainNext]_vars

(***************************************************************************)
(* PluginManager.processArticle                                            *)
(***************************************************************************)
\* !article || typeof article.id !== 'string'
ValidArticle(article) == article.id # Undefined

\* The array the for...of of a call iterates over
ChainArray(r, chain) == IF r.shared THEN chain ELSE r.array

\* What processor fn returns for the document input; a result that is no
\* object with an id is the document with the empty id
Output(input, fn, outcome) ==
    CASE outcome = "ok" -> [id |-> input.id, trail |-> Append(input.trail, fn)]
      [] outcome = "otherId" -> [id |-> OtherId, trail |-> Append(input.trail, fn)]
      [] OTHER -> [id |-> "", trail |-> <<>>]

\* result && typeof result === 'object' && result.id
Accepted(result) == result.id # ""

\* The loop head of processArticle: the call is over when the iterator is at
\* the end of its array, else the next processor is invoked and awaited
ProcLoop(r, chain, cfg) ==
    IF r.i > Len(ChainArray(r, chain))
    THEN [r EXCEPT !.phase = "done", !.shared = FALSE, !.array = <<>>,
                   !.remaining = 0]
    ELSE [r EXCEPT !.phase = "await", !.remaining = Timeout(cfg)]

\* A faulty variant of Stage: a processor that fails ends the call
StageAbortsOnFailure(r, chain, outcome, cfg) ==
    LET entry == ChainArray(r, chain)[r.i]
        result == Output(r.processed, entry.fn, outcome)
        taken == outcome \in {"ok", "otherId", "invalid"} /\ Accepted(result)
        r1 == [r EXCEPT !.processed = IF taken THEN result ELSE @,
                        !.trace = Append(@, [entry |-> entry, input |-> r.processed,
                                             outcome |-> outcome,
                                             output |-> result]),
                        !.i = @ + 1]
    IN IF outcome \in {"throw", "timeout"}
       THEN [r1 EXCEPT !.phase = "done", !.shared = FALSE, !.array = <<>>,
                       !.remaining = 0]
       ELSE ProcLoop(r1, chain, cfg)

\* The body of the loop once the awaited processor settled with outcome
\* ("timeout" when the timer of withTimeout fired first), then the loop head
Stage(r, chain, outcome, cfg) ==
    LET entry == ChainArray(r, chain)[r.i]
        result == Output(r.processed, entry.fn, outcome)
        taken == outcome \in {"ok", "otherId", "invalid"} /\ Accepted(result)
    IN ProcLoop([r EXCEPT !.processed = IF taken THEN result ELSE @,
                          !.trace = Append(@, [entry |-> entry, input |-> r.processed,
                                               outcome |-> outcome,
                                               output |-> result]),
                          !.i = @ + 1],
                chain, cfg)

\* The branch processArticle(article) takes before its loop
ProcessPath(m, article) ==
    IF m.disposed THEN "disposed"
    ELSE IF ~ValidArticle(article) THEN "invalid"
    ELSE "processing"

\* processArticle(article) up to its first await
ProcessArticle(article) ==
    LET path == ProcessPath(pm, article) IN
    /\ proc.phase \in {"idle", "done"}
    /\ proc' = IF path = "processing"
               THEN ProcLoop([phase |-> "await", shared |-> TRUE, array |-> <<>>,
                              i |-> 1, remaining |-> 0, article |-> article,
                              processed |-> article, trace |-> <<>>],
                             pm.articleProcessors, config)
               ELSE proc
    /\ last' = [op |-> "processArticle", path |-> path,
                ret |-> IF path = "processing" THEN "pending" ELSE "rejected"]
    /\ UNCHANGED <<now, hung, config, pm, calls, cleanup, search, cacheVars, coreVars>>

\* The processor awaited by processArticle settles before the timer
ProcessorSettled(outcome) ==
    /\ proc.phase = "await"
    /\ proc' = Stage(proc, pm.articleProcessors, outcome, config)
    /\ last' = [op |-> "processArticle", path |-> outcome,
                ret |-> IF proc'.phase = "done" THEN "resolved" ELSE "pending"]
    /\ UNCHANGED <<now, hung, config, pm, calls, cleanup, search, cacheVars, coreVars>>

\* withTimeout: the timer fires while the awaited processor is still pending,
\* so the race rejects and the loop goes on; late tells whether the promise of
\* the processor settles at all afterwards
ProcessorDeadline(late) ==
    /\ proc.phase = "await"
    /\ proc.remaining = 0
    /\ proc' = Stage(proc, pm.articleProcessors, "timeout", config)
    /\ hung' = IF late
               THEN hung \cup {[kind |-> "processor",
                                entry |-> ChainArray(proc, pm.articleProcessors)[proc.i],
                                input |-> proc.processed]}
               ELSE hung
    /\ last' = [op |-> "processArticle", path |-> "timeout",
                ret |-> IF proc'.phase = "done" THEN "resolved" ELSE "pending"]
    /\ UNCHANGED <<now, config, pm, calls, cleanup, search, cacheVars, coreVars>>

\* The timer fires on a processor that never settles
ProcessorTimeout == ProcessorDeadline(FALSE)

\* A manager on which two plugins without a deactivation hook were
\* registered, their activation hooks registering nothing
HooklessRegistered ==
    [plugins |-> <<[key |-> "p", value |-> [name |-> "p", valid |-> TRUE,
                                            deactivate |-> FALSE]],
                   [key |-> "q", value |-> [name |-> "q", valid |-> TRUE,
                                            deactivate |-> FALSE]]>>,
     activePlugins |-> <<"p", "q">>,
     articleProcessors |-> <<>>, searchExtensions |-> <<>>, disposed |-> FALSE]

ProcessInit ==
    /\ now = 0
    /\ last = [op |-> "new", path |-> "", ret |-> "void"]
    /\ evictionPolicy = "lru"
    /\ maxSize \in MaxSizes
    /\ cache = <<>>
    /\ stats = [hits |-> 0, misses |-> 0]
    /\ inflight = <<>>
    /\ config \in [timeout : Timeouts, maxProcessors : ProcessorLimits]
    /\ pm = HooklessRegistered
    /\ calls = <<>>
    /\ hung = {}
    /\ cleanup = CleanupIdle
    /\ proc = ChainIdle
    /\ search = ChainIdle
    /\ CoreIdle

ProcessNext ==
    \/ \E name \in PluginNames, fn \in FnInputs : RegisterArticleProcessor(name, fn)
    \/ \E name \in NameInputs : UnregisterPlugin(name)
    \/ \E article \in ArticleInputs : ProcessArticle(article)
    \/ \E outcome \in Outcomes : ProcessorSettled(outcome)
    \/ ProcessorTimeout
    \/ PluginTick

ProcessSpec == ProcessInit /\ [][ProcessNext]_vars

(***************************************************************************)
(* PluginManager.executeSearchExtensions                                   *)
(***************************************************************************)
\* What extension fn returns for query
ExtensionOutput(query, fn, outcome) ==
    IF outcome = "value" THEN <<fn, query>> ELSE Undefined

\* The loop head of executeSearchExtensions
SearchLoop(r, chain, cfg) ==
    IF r.i > Len(ChainArray(r, chain))
    THEN [r EXCEPT !.phase = "done", !.shared = FALSE, !.array = <<>>,
                   !.remaining = 0]
    ELSE [r EXCEPT !.phase = "await", !.remaining = Timeout(cfg)]

\* A faulty variant of SearchStage: an undefined result is collected too
SearchStageKeepsUndefined(r, chain, outcome, cfg) ==
    LET entry == ChainArray(r, chain)[r.i]
        result == ExtensionOutput(r.query, entry.fn, outcome)
        taken == outcome \in {"value", "undefined"}
    IN SearchLoop([r EXCEPT !.results = IF taken THEN Append(@, result) ELSE @,
                            !.trace = Append(@, [entry |-> entry, input |-> r.query,
                                                 outcome |-> outcome]),
                            !.i = @ + 1],
                  chain, cfg)

\* The body of the loop once the awaited extension settled with outcome
\* ("timeout" when the timer of withTimeout fired first), then the loop head
SearchStage(r, chain, outcome, cfg) ==
    LET entry == ChainArray(r, chain)[r.i]
        result == ExtensionOutput(r.query, entry.fn, outcome)
        taken == outcome \in {"value", "undefined"} /\ result # Undefined
    IN SearchLoop([r EXCEPT !.results = IF taken THEN Append(@, result) ELSE @,
                            !.trace = Append(@, [entry |-> entry, input |-> r.query,
                                                 outcome |-> outcome]),
                            !.i = @ + 1],
                  chain, cfg)

\* The branch executeSearchExtensions(query, articles) takes before its loop
SearchPath(m, query) ==
    IF m.disposed THEN "disposed"
    ELSE IF query = Undefined THEN "empty"
    ELSE "searching"

\* executeSearchExtensions(query, articles) up to its first await
ExecuteSearchExtensions(query) ==
    LET path == SearchPath(pm, query) IN
    /\ search.phase \in {"idle", "done"}
    /\ search' = CASE path = "searching" ->
                        SearchLoop([phase |-> "await", shared |-> TRUE, array |-> <<>>,
                                    i |-> 1, remaining |-> 0, query |-> query,
                                    results |-> <<>>, trace |-> <<>>],
                                   pm.searchExtensions, config)
                   [] path = "empty" ->
                        [phase |-> "done", shared |-> FALSE, array |-> <<>>,
                         i |-> 1, remaining |-> 0, query |-> query,
                         results |-> <<>>, trace |-> <<>>]
                   [] OTHER -> search
    /\ last' = [op |-> "executeSearchExtensions", path |-> path,
                ret |-> CASE path = "searching" -> "pending"
                          [] path = "empty" -> "resolved"
                          [] OTHER -> "rejected"]
    /\ UNCHANGED <<now, hung, config, pm, calls, cleanup, proc, cacheVars, coreVars>>

\* The extension awaited by executeSearchExtensions settles before the timer
ExtensionSettled(outcome) ==
    /\ search.phase = "await"
    /\ search' = SearchStage(search, pm.searchExtensions, outcome, config)
    /\ last' = [op |-> "executeSearchExtensions", path |-> outcome,
                ret |-> IF search'.phase = "done" THEN "resolved" ELSE "pending"]
    /\ UNCHANGED <<now, hung, config, pm, calls, cleanup, proc, cacheVars, coreVars>>

\* withTimeout: the timer fires while the awaited extension is still pending,
\* so the race rejects and the loop goes on; late tells whether the promise of
\* the extension settles at all afterwards
ExtensionDeadline(late) ==
    /\ search.phase = "await"
    /\ search.remaining = 0
    /\ search' = SearchStage(search, pm.searchExtensions, "timeout", config)
    /\ hung' = IF late
               THEN hung \cup {[kind |-> "extension",
                                entry |-> ChainArray(search, pm.searchExtensions)[search.i],
                                input |-> search.query]}
               ELSE hung
    /\ last' = [op |-> "executeSearchExtensions", path |-> "timeout",
                ret |-> IF search'.phase = "done" THEN "resolved" ELSE "pending"]
    /\ UNCHANGED <<now, config, pm, calls, cleanup, proc, cacheVars, coreVars>>

\* The timer fires on an extension that never settles
ExtensionTimeout == ExtensionDeadline(FALSE)

SearchExtNext ==
    \/ \E name \in PluginNames, fn \in FnInputs : RegisterSearchExtension(name, fn)
    \/ \E name \in NameInputs : UnregisterPlugin(name)
    \/ \E query \in QueryInputs : ExecuteSearchExtensions(query)
    \/ \E outcome \in ExtensionOutcomes : ExtensionSettled(outcome)
    \/ ExtensionTimeout
    \/ PluginTick

SearchExtSpec == ProcessInit /\ [][SearchExtNext]_vars

(***************************************************************************)
(* withTimeout: hooks that settle after their timer fired                  *)
(***************************************************************************)
\* What a hook left behind by withTimeout may settle with
LateOutcomes(h) ==
    CASE h.kind = "register" -> {"resolved", "rejected"}
      [] h.kind = "processor" -> Outcomes
      [] OTHER -> ExtensionOutcomes

\* A faulty variant of LateSettle: the caller takes the late result as if the
\* hook had settled in time
LateSettleTakesResult(h, outcome) ==
    LET result == IF h.kind = "processor"
                  THEN Output(h.input, h.entry.fn, outcome)
                  ELSE [id |-> "", trail |-> <<>>]
    IN /\ h \in hung
       /\ outcome \in LateOutcomes(h)
       /\ hung' = hung \ {h}
       /\ pm' = IF h.kind = "register" /\ outcome = "resolved"
                THEN Activated(pm, h.plugin) ELSE pm
       /\ proc' = IF h.kind = "processor" /\ proc.phase # "idle" /\ Accepted(result)
                  THEN [proc EXCEPT !.processed = result] ELSE proc
       /\ search' = IF h.kind = "extension" /\ search.phase # "idle"
                       /\ outcome = "value"
                    THEN [search EXCEPT !.results =
                             Append(@, ExtensionOutput(h.input, h.entry.fn, outcome))]
                    ELSE search
       /\ last' = [op |-> "withTimeout", path |-> "late", ret |-> outcome, hook |-> h]
       /\ UNCHANGED <<now, config, calls, cleanup, cacheVars, coreVars>>

\* The hook h settles after its timer fired. Promise.race settled with the
\* rejection of the timer, and the caller of withTimeout went on from it: the
\* settling of the other promise of the race reaches no one
LateSettle(h, outcome) ==
    /\ h \in hung
    /\ outcome \in LateOutcomes(h)
    /\ hung' = hung \ {h}
    /\ last' = [op |-> "withTimeout", path |-> "late", ret |-> outcome, hook |-> h]
    /\ UNCHANGED <<now, config, pm, calls, cleanup, chainVars, cacheVars, coreVars>>

\* The plugin registered where late hooks are exercised: its activation hook
\* registers one processor and one search extension
LatePlugins == {[name |-> "p", valid |-> TRUE, deactivate |-> FALSE]}

\* Every hook that may be left behind
LateHooks ==
    [kind : {"register"}, plugin : LatePlugins]
    \cup [kind : {"processor"},
          entry : [pluginName : PluginNames, fn : {HookFn}],
          input : [id : {"a"}, trail : {<<>>, <<HookFn>>}]]
    \cup [kind : {"extension"},
          entry : [pluginName : PluginNames, fn : {HookFn}],
          input : {"x"}]

LateInit ==
    /\ now = 0
    /\ last = [op |-> "new", path |-> "", ret |-> "void"]
    /\ evictionPolicy = "lru"
    /\ maxSize \in MaxSizes
    /\ cache = <<>>
    /\ stats = [hits |-> 0, misses |-> 0]
    /\ inflight = <<>>
    /\ config \in [timeout : Timeouts, maxProcessors : ProcessorLimits]
    /\ pm = [plugins |-> <<>>, activePlugins |-> <<>>, articleProcessors |-> <<>>,
             searchExtensions |-> <<>>, disposed |-> FALSE]
    /\ calls = <<>>
    /\ hung = {}
    /\ cleanup = CleanupIdle
    /\ proc = ChainIdle
    /\ search = ChainIdle
    /\ CoreIdle

LateNext ==
    \/ \E plugin \in LatePlugins : RegisterPlugin(plugin, 1)
    \/ \E i \in 1..MaxCalls : ActivateResolved(i)
    \/ \E i \in 1..MaxCalls, late \in BOOLEAN : ActivateDeadline(i, late)
    \/ ProcessArticle([id |-> "a", trail |-> <<>>])
    \/ ProcessorSettled("ok")
    \/ \E late \in BOOLEAN : ProcessorDeadline(late)
    \/ ExecuteSearchExtensions("x")
    \/ ExtensionSettled("value")
    \/ \E late \in BOOLEAN : ExtensionDeadline(late)
    \/ \E h \in LateHooks, outcome \in Outcomes \cup ExtensionOutcomes
                                   \cup {"resolved", "rejected"} :
            LateSettle(h, outcome)
    \/ PluginTick

LateSpec == LateInit /\ [][LateNext]_vars

(***************************************************************************)
(* ArticleManager: the document store.  A text is the sequence of its      *)
(* words as written; a document carries the fields the search engine reads.*)
(***************************************************************************)
\* createArticleFromMarkdown(id, content) for a content without front matter:
\* the title falls back to the id, the description is the summary of the body
\* (a short body whole; its trailing dots add no word) and tags and
\* categories are empty.  It throws on an id that is no non-empty string and
\* on a content that is no string; it does not look at the disposed flag.
CreateArticleFromMarkdown(id, content) ==
    IF id = Undefined \/ id = "" \/ content = <<Undefined>>
    THEN [threw |-> TRUE, article |-> [id |-> Undefined]]
    ELSE [threw |-> FALSE,
          article |-> [id |-> id, title |-> <<id>>, description |-> content,
                       tags |-> <<>>, categories |-> <<>>, content |-> content]]

\* The documents handed to addArticle and indexArticles: documents made by
\* createArticleFromMarkdown (one of them with an empty body, two under the
\* same id), and a value whose id is no string
DocInputs ==
    {CreateArticleFromMarkdown("a", <<"w">>).article,
     CreateArticleFromMarkdown("a", <<"x">>).article,
     CreateArticleFromMarkdown("b", <<"W", "x">>).article,
     CreateArticleFromMarkdown("b", <<>>).article,
     [id |-> Undefined]}

\* addArticle(article)
AddArticlePath(s, article) ==
    IF s.disposed THEN "disposed"
    ELSE IF article.id = Undefined THEN "invalid"
    ELSE "added"

AddArticleResult(s, article) ==
    IF AddArticlePath(s, article) = "added"
    THEN [s EXCEPT !.articles = MapSet(@, article.id,
                                       [key |-> article.id, value |-> article])]
    ELSE s

AddArticle(article) ==
    /\ store' = AddArticleResult(store, article)
    /\ last' = [op |-> "ArticleManager.addArticle",
                path |-> AddArticlePath(store, article),
                ret |-> IF AddArticlePath(store, article) = "added"
                        THEN "void" ELSE "throw"]
    /\ UNCHANGED <<now, cacheVars, pluginVars, engine, core, loads, tasks, peer, emitter>>

\* createArticleFromMarkdown(id, content) called on the store
CreateArticle(id, content) ==
    /\ last' = [op |-> "ArticleManager.createArticleFromMarkdown",
                path |-> IF store.disposed THEN "disposed" ELSE "live",
                ret |-> IF CreateArticleFromMarkdown(id, content).threw
                        THEN "throw" ELSE "article"]
    /\ UNCHANGED <<now, cacheVars, pluginVars, coreVars>>

\* The read operations of the store: each calls checkDisposed first
StoreReadOps ==
    {"ArticleManager.getArticles", "ArticleManager.getArticleById",
     "ArticleManager.getArticleList", "ArticleManager.getRelatedArticles",
     "ArticleManager.getTagStats", "ArticleManager.getCategoryStats",
     "ArticleManager.getStats"}

StoreRead(op) ==
    /\ last' = [op |-> op,
                path |-> IF store.disposed THEN "disposed" ELSE "live",
                ret |-> IF store.disposed THEN "throw" ELSE "value"]
    /\ UNCHANGED <<now, cacheVars, pluginVars, coreVars>>

\* clear(): checkDisposed, then articles.clear()
StoreClearResult(s) ==
    IF s.disposed THEN [threw |-> TRUE, store |-> s]
    ELSE [threw |-> FALSE, store |-> [s EXCEPT !.articles = <<>>]]

StoreClear ==
    /\ store' = StoreClearResult(store).store
    /\ last' = [op |-> "ArticleManager.clear",
                path |-> IF store.disposed THEN "disposed" ELSE "cleared",
                ret |-> IF store.disposed THEN "throw" ELSE "void"]
    /\ UNCHANGED <<now, cacheVars, pluginVars, engine, core, loads, tasks, peer, emitter>>

\* dispose(): this.clear(), which throws on a disposed store, then
\* disposed = true
StoreDisposeResult(s) ==
    IF StoreClearResult(s).threw THEN [threw |-> TRUE, store |-> s]
    ELSE [threw |-> FALSE,
          store |-> [StoreClearResult(s).store EXCEPT !.disposed = TRUE]]

StoreDispose ==
    /\ store' = StoreDisposeResult(store).store
    /\ last' = [op |-> "ArticleManager.dispose",
                path |-> IF store.disposed THEN "disposed" ELSE "disposing",
                ret |-> IF store.disposed THEN "throw" ELSE "void"]
    /\ UNCHANGED <<now, cacheVars, pluginVars, engine, core, loads, tasks, peer, emitter>>

(***************************************************************************)
(* SearchEngine: the index maps a word to its postings in insertion order, *)
(* articles maps an id to the indexed document.                            *)
(***************************************************************************)
\* The cap on the weight of one posting
MaxWeight == 1000
\* The values of SearchEngineConfig.maxIndexSize exercised
IndexLimits == {2, DefaultMaxIndexSize}
\* A value handed to indexArticles that is no array
NotAnArray == <<[id |-> "notAnArray"]>>

\* The length of a word.  LongWord stands for a word of 100 characters
\* without a separator, "" for the empty piece a leading separator leaves
LongWord == "longword"

FiftyOneWords ==
    <<"t01", "t02", "t03", "t04", "t05", "t06", "t07", "t08", "t09",
      "t10", "t11", "t12", "t13", "t14", "t15", "t16", "t17", "t18",
      "t19", "t20", "t21", "t22", "t23", "t24", "t25", "t26", "t27",
      "t28", "t29", "t30", "t31", "t32", "t33", "t34", "t35", "t36",
      "t37", "t38", "t39", "t40", "t41", "t42", "t43", "t44", "t45",
      "t46", "t47", "t48", "t49", "t50", "t51">>

WordLength(word) ==
    CASE word = "" -> 0
      [] word \in {"go", "Go"} -> 2
      [] word = "rust" -> 4
      [] word = "gopher" -> 6
      [] word = LongWord -> 100
      [] \E i \in 1..Len(FiftyOneWords) : FiftyOneWords[i] = word -> 3
      [] OTHER -> 1

\* key.startsWith(keyword) on the words of the model
StartsWith(key, keyword) ==
    \/ key = keyword
    \/ keyword = ""
    \/ keyword = "go" /\ key = "gopher"

\* text.toLowerCase() on one word
ToLowerCase(word) ==
    CASE word = "W" -> "w"
      [] word = "Go" -> "go"
      [] OTHER -> word

\* [...new Set(words)]: the first occurrence of each word, in order
WordsOf(firsts) == [k \in 1..Len(firsts) |-> firsts[k].word]

Distinct(words) ==
    WordsOf(SelectSeq([i \in 1..Len(words) |-> [i |-> i, word |-> words[i]]],
                      LAMBDA p : \A j \in 1..(p.i - 1) : words[j] # p.word))

\* The bounds of tokenize
MaxWordLength == 100
MaxTokens == 50

\* seq.slice(0, n)
Slice(seq, n) == SubSeq(seq, 1, IF Len(seq) < n THEN Len(seq) ELSE n)

\* A faulty variant of Tokenize: the pieces are neither filtered by length nor
\* cut to the first 50
TokenizeUnbounded(text) == Distinct([i \in 1..Len(text) |-> ToLowerCase(text[i])])

\* tokenize(text) with caseSensitive false: lower-cased, split into pieces,
\* the pieces of length 1 to 99 kept, the first 50 of them taken, duplicates
\* dropped
Tokenize(text) ==
    Distinct(Slice(SelectSeq([i \in 1..Len(text) |-> ToLowerCase(text[i])],
                             LAMBDA w : WordLength(w) > 0
                                        /\ WordLength(w) < MaxWordLength),
                   MaxTokens))

\* The weighted fields indexArticle reads, in its order
IndexItems(article) ==
    <<[content |-> article.title, weight |-> 10],
      [content |-> article.description, weight |-> 5],
      [content |-> article.tags, weight |-> 4],
      [content |-> article.categories, weight |-> 4],
      [content |-> article.content, weight |-> 1]>>

Min(a, b) == IF a <= b THEN a ELSE b

\* A faulty variant of IndexWord: the weight of an existing posting grows
\* without a cap
IndexWordUncapped(index, article, item, word) ==
    LET idx == IF MapHas(index, word) THEN index
               ELSE Append(index, [key |-> word, value |-> <<>>])
        list == MapGet(idx, word).value
        found == {i \in 1..Len(list) : list[i].articleId = article.id}
        existing == CHOOSE i \in found : \A j \in found : i <= j
    IN IF found = {}
       THEN MapSet(idx, word,
                   [key |-> word,
                    value |-> Append(list, [id |-> <<article.id, word>>,
                                            articleId |-> article.id,
                                            content |-> item.content,
                                            weight |-> item.weight])])
       ELSE MapSet(idx, word,
                   [key |-> word,
                    value |-> [list EXCEPT ![existing].weight = @ + item.weight]])

\* A faulty variant of IndexWord: a word found again in a later field leaves
\* the posting as it is
IndexWordKeepsFirst(index, article, item, word) ==
    LET idx == IF MapHas(index, word) THEN index
               ELSE Append(index, [key |-> word, value |-> <<>>])
        list == MapGet(idx, word).value
    IN IF \A i \in 1..Len(list) : list[i].articleId # article.id
       THEN MapSet(idx, word,
                   [key |-> word,
                    value |-> Append(list, [id |-> <<article.id, word>>,
                                            articleId |-> article.id,
                                            content |-> item.content,
                                            weight |-> item.weight])])
       ELSE idx

\* The body of indexArticle's loop over the words of one field
IndexWord(index, article, item, word) ==
    LET idx == IF MapHas(index, word) THEN index
               ELSE Append(index, [key |-> word, value |-> <<>>])
        list == MapGet(idx, word).value
        found == {i \in 1..Len(list) : list[i].articleId = article.id}
        existing == CHOOSE i \in found : \A j \in found : i <= j
    IN IF found = {}
       THEN MapSet(idx, word,
                   [key |-> word,
                    value |-> Append(list, [id |-> <<article.id, word>>,
                                            articleId |-> article.id,
                                            content |-> item.content,
                                            weight |-> item.weight])])
       ELSE MapSet(idx, word,
                   [key |-> word,
                    value |-> [list EXCEPT ![existing].weight =
                                   Min(@ + item.weight, MaxWeight)]])

\* The loop over words lo..hi of one field, evaluated by halves
RECURSIVE IndexWordsRange(_, _, _, _, _, _)
IndexWordsRange(index, article, item, words, lo, hi) ==
    IF lo > hi THEN index
    ELSE IF lo = hi THEN IndexWord(index, article, item, words[lo])
    ELSE Then(IndexWordsRange(index, article, item, words, lo, (lo + hi) \div 2),
              LAMBDA left : IndexWordsRange(left, article, item, words,
                                            (lo + hi) \div 2 + 1, hi))

IndexWords(index, article, item, words) ==
    IndexWordsRange(index, article, item, words, 1, Len(words))

RECURSIVE IndexFields(_, _, _)
IndexFields(index, article, items) ==
    IF items = <<>> THEN index
    ELSE Then(IndexWords(index, article, Head(items),
                         Tokenize(Head(items).content)),
              LAMBDA next : IndexFields(next, article, Tail(items)))

\* indexArticle(article): throws on a document without id, title or body
IndexArticle(index, article) ==
    IF article.title = <<>> \/ article.content = <<>>
    THEN [threw |-> TRUE, index |-> index]
    ELSE [threw |-> FALSE,
          index |-> IndexFields(index, article, IndexItems(article))]

\* One round of the loop of indexArticles: a document without id or one that
\* indexArticle rejects is skipped; the loop stops once the index has grown
\* beyond maxIndexSize
IndexStep(e, a) ==
    IF a.id = Undefined \/ IndexArticle(e.index, a).threw
    THEN [e |-> e, stop |-> FALSE]
    ELSE LET next == [e EXCEPT
                          !.index = IndexArticle(e.index, a).index,
                          !.articles = MapSet(@, a.id, [key |-> a.id, value |-> a])]
         IN [e |-> next, stop |-> Len(next.index) > e.maxIndexSize]

\* The rounds lo..hi of the loop, evaluated by halves
RECURSIVE IndexRange(_, _, _, _)
IndexRange(st, articles, lo, hi) ==
    IF st.stop \/ lo > hi THEN st
    ELSE IF lo = hi THEN IndexStep(st.e, articles[lo])
    ELSE LET mid == (lo + hi) \div 2
             left == IndexRange(st, articles, lo, mid)
         IN IndexRange(left, articles, mid + 1, hi)

\* The loop of indexArticles over the documents
IndexLoop(e, articles) ==
    IndexRange([e |-> e, stop |-> FALSE], articles, 1, Len(articles)).e

\* A faulty variant of IndexArticlesResult: the maps are not cleared first
IndexArticlesIncremental(e, articles) ==
    IF e.disposed \/ articles = NotAnArray THEN e
    ELSE IndexLoop(e, articles)

\* indexArticles(articles): both maps are cleared, then rebuilt
IndexArticlesResult(e, articles) ==
    IF e.disposed \/ articles = NotAnArray THEN e
    ELSE IndexLoop([e EXCEPT !.index = <<>>, !.articles = <<>>], articles)

\* "reindexed" is a rebuild of an engine that held documents or postings
IndexArticlesPath(e, articles) ==
    IF e.disposed THEN "disposed"
    ELSE IF articles = NotAnArray THEN "notAnArray"
    ELSE IF e.index # <<>> \/ e.articles # <<>> THEN "reindexed"
    ELSE "indexed"

\* The call before this one was indexArticles(articles), and it returned
IndexedJustBefore(articles) ==
    /\ last.op = "SearchEngine.indexArticles"
    /\ last.ret = "void"
    /\ last.articles = articles

IndexArticles(articles) ==
    /\ engine' = IndexArticlesResult(engine, articles)
    /\ last' = [op |-> "SearchEngine.indexArticles",
                path |-> IndexArticlesPath(engine, articles),
                ret |-> IF engine.disposed THEN "throw" ELSE "void",
                articles |-> articles,
                again |-> IndexedJustBefore(articles)]
    /\ UNCHANGED <<now, cacheVars, pluginVars, store, core, loads, tasks, peer, emitter>>

\* search and getStats: each calls checkDisposed first and changes nothing
EngineReadOps == {"SearchEngine.search", "SearchEngine.getStats"}

EngineRead(op) ==
    /\ last' = [op |-> op,
                path |-> IF engine.disposed THEN "disposed" ELSE "live",
                ret |-> IF engine.disposed THEN "throw" ELSE "value"]
    /\ UNCHANGED <<now, cacheVars, pluginVars, coreVars>>

\* clear(): checkDisposed, then both maps are cleared
EngineClearResult(e) ==
    IF e.disposed THEN [threw |-> TRUE, engine |-> e]
    ELSE [threw |-> FALSE,
          engine |-> [e EXCEPT !.index = <<>>, !.articles = <<>>]]

EngineClear ==
    /\ engine' = EngineClearResult(engine).engine
    /\ last' = [op |-> "SearchEngine.clear",
                path |-> IF engine.disposed THEN "disposed" ELSE "cleared",
                ret |-> IF engine.disposed THEN "throw" ELSE "void"]
    /\ UNCHANGED <<now, cacheVars, pluginVars, store, core, loads, tasks, peer, emitter>>

\* dispose(): this.clear(), which throws on a disposed engine, then
\* disposed = true
EngineDisposeResult(e) ==
    IF EngineClearResult(e).threw THEN [threw |-> TRUE, engine |-> e]
    ELSE [threw |-> FALSE,
          engine |-> [EngineClearResult(e).engine EXCEPT !.disposed = TRUE]]

EngineDispose ==
    /\ engine' = EngineDisposeResult(engine).engine
    /\ last' = [op |-> "SearchEngine.dispose",
                path |-> IF engine.disposed THEN "disposed" ELSE "disposing",
                ret |-> IF engine.disposed THEN "throw" ELSE "void"]
    /\ UNCHANGED <<now, cacheVars, pluginVars, store, core, loads, tasks, peer, emitter>>

\* The lists of documents handed to indexArticles
MaxDocs == 2

DocLists == UNION {[1..n -> DocInputs] : n \in 0..MaxDocs}

IndexInit ==
    /\ now = 0
    /\ last = [op |-> "new", path |-> "", ret |-> "void"]
    /\ evictionPolicy = "lru"
    /\ maxSize \in MaxSizes
    /\ cache = <<>>
    /\ stats = [hits |-> 0, misses |-> 0]
    /\ inflight = <<>>
    /\ PluginIdle
    /\ store = NewArticleManager
    /\ \E maxIndexSize \in IndexLimits : engine = NewSearchEngine(maxIndexSize)
    /\ NewBlogCore

IndexNext ==
    \/ \E articles \in DocLists \cup {NotAnArray} : IndexArticles(articles)
    \/ \E op \in EngineReadOps : EngineRead(op)
    \/ EngineClear
    \/ EngineDispose

IndexSpec == IndexInit /\ [][IndexNext]_vars

(***************************************************************************)
(* SearchEngine.search                                                     *)
(***************************************************************************)
\* The caps of searchIndex and of search
MaxExactItems == 100
MaxPrefixItems == 50
MaxPrefixMatches == 50
MaxHighlights == 10

\* A value handed to search that is no string
NotAString == <<Undefined>>

\* query.length: the words and the separators between them
RECURSIVE QueryLength(_)
QueryLength(query) ==
    IF query = <<>> THEN 0
    ELSE IF Len(query) = 1 THEN WordLength(query[1])
    ELSE WordLength(Head(query)) + 1 + QueryLength(Tail(query))

\* this.config.minSearchLength || 2
MinSearchLength(e) ==
    IF e.minSearchLength = 0 THEN DefaultMinSearchLength ELSE e.minSearchLength

\* lists[lo] \o ... \o lists[hi], evaluated by halves
RECURSIVE Flatten(_, _, _)
Flatten(lists, lo, hi) ==
    IF lo > hi THEN <<>>
    ELSE IF lo = hi THEN lists[lo]
    ELSE Flatten(lists, lo, (lo + hi) \div 2)
         \o Flatten(lists, (lo + hi) \div 2 + 1, hi)

\* The prefix half of searchIndex: the first postings of the first keys, in
\* Map order, that start with keyword and differ from it
PrefixItems(index, keyword) ==
    LET matches == Slice(SelectSeq(index, LAMBDA entry :
                                       /\ StartsWith(entry.key, keyword)
                                       /\ entry.key # keyword),
                         MaxPrefixMatches)
    IN Flatten([k \in 1..Len(matches) |-> Slice(matches[k].value, MaxPrefixItems)],
               1, Len(matches))

\* searchIndex(keyword): the postings of the keyword, then those of the keys
\* it is a prefix of
SearchIndex(index, keyword) ==
    (IF MapHas(index, keyword)
     THEN Slice(MapGet(index, keyword).value, MaxExactItems) ELSE <<>>)
    \o PrefixItems(index, keyword)

\* The inner loop of search: each posting adds its weight to the score of its
\* document and its highlighted text to the document's set of highlights
RECURSIVE Accumulate(_, _, _)
Accumulate(resultMap, indices, keyword) ==
    IF indices = <<>> THEN resultMap
    ELSE LET item == Head(indices)
             old == IF MapHas(resultMap, item.articleId)
                    THEN MapGet(resultMap, item.articleId)
                    ELSE [key |-> item.articleId, score |-> 0, highlights |-> <<>>]
             highlight == [content |-> item.content, keyword |-> keyword]
             seen == \E i \in 1..Len(old.highlights) : old.highlights[i] = highlight
         IN Then(MapSet(resultMap, item.articleId,
                        [old EXCEPT !.score = @ + item.weight,
                                    !.highlights = IF seen THEN @
                                                   ELSE Append(@, highlight)]),
                 LAMBDA next : Accumulate(next, Tail(indices), keyword))

\* The outer loop of search over the keywords
RECURSIVE ScoreKeywords(_, _, _)
ScoreKeywords(resultMap, index, keywords) ==
    IF keywords = <<>> THEN resultMap
    ELSE Then(Accumulate(resultMap, SearchIndex(index, Head(keywords)),
                         Head(keywords)),
              LAMBDA next : ScoreKeywords(next, index, Tail(keywords)))

\* results.sort((a, b) => b.score - a.score): stable, highest score first
RECURSIVE SortByScore(_)
SortByScore(results) ==
    IF results = <<>> THEN <<>>
    ELSE LET sorted == SortByScore(SubSeq(results, 1, Len(results) - 1))
             r == results[Len(results)]
             pos == Cardinality({i \in 1..Len(sorted) : sorted[i].score >= r.score})
         IN SubSeq(sorted, 1, pos) \o <<r>> \o SubSeq(sorted, pos + 1, Len(sorted))

\* The result entries of the documents still in the cache, in Map order
RECURSIVE ToResults(_, _)
ToResults(resultMap, articles) ==
    IF resultMap = <<>> THEN <<>>
    ELSE LET entry == Head(resultMap)
         IN (IF MapHas(articles, entry.key)
             THEN <<[article |-> MapGet(articles, entry.key).value,
                     score |-> entry.score,
                     highlights |-> Slice(entry.highlights, MaxHighlights)]>>
             ELSE <<>>) \o ToResults(Tail(resultMap), articles)

\* Math.max(1, this.config.maxResults || 20)
ResultLimit(e) ==
    LET maxResults == IF e.maxResults = 0 THEN DefaultMaxResults ELSE e.maxResults
    IN IF maxResults < 1 THEN 1 ELSE maxResults

\* A faulty variant of EngineSearchPath: the length of the query is not checked
EngineSearchPathAnyLength(e, query) ==
    IF e.disposed THEN "disposed"
    ELSE IF query = NotAString THEN "notAString"
    ELSE IF Tokenize(query) = <<>> THEN "noKeywords"
    ELSE "searched"

\* The checks of search before its loops (queries stay below maxQueryLength)
EngineSearchPath(e, query) ==
    IF e.disposed THEN "disposed"
    ELSE IF query = NotAString THEN "notAString"
    ELSE IF QueryLength(query) < MinSearchLength(e) THEN "short"
    ELSE IF Tokenize(query) = <<>> THEN "noKeywords"
    ELSE "searched"

\* A faulty variant of SearchResults: the results are neither sorted nor cut
SearchResultsUnsorted(e, query) ==
    IF EngineSearchPath(e, query) # "searched" THEN <<>>
    ELSE ToResults(ScoreKeywords(<<>>, e.index, Tokenize(query)), e.articles)

\* What search(query) returns
SearchResults(e, query) ==
    IF EngineSearchPath(e, query) # "searched" THEN <<>>
    ELSE Slice(SortByScore(ToResults(ScoreKeywords(<<>>, e.index, Tokenize(query)),
                                     e.articles)),
               ResultLimit(e))

\* search(query); keywords is what tokenize made of the query
EngineSearch(query) ==
    /\ last' = [op |-> "SearchEngine.search",
                path |-> EngineSearchPath(engine, query),
                ret |-> IF engine.disposed THEN "throw" ELSE "value",
                query |-> query,
                keywords |-> IF query = NotAString THEN <<>> ELSE Tokenize(query),
                results |-> SearchResults(engine, query)]
    /\ UNCHANGED <<now, cacheVars, pluginVars, coreVars>>

\* The documents and queries of the search specification
TwelveWords == <<"rust">> \o SubSeq(FiftyOneWords, 1, 11)

SearchDocs ==
    {[id |-> "a", title |-> <<"Go">>, description |-> <<>>, tags |-> <<>>,
      categories |-> <<>>, content |-> <<"go">>],
     [id |-> "b", title |-> <<"gopher">>, description |-> <<>>, tags |-> <<"go">>,
      categories |-> <<>>, content |-> <<"go", "rust">>],
     [id |-> "a", title |-> <<"rust">>, description |-> <<>>, tags |-> <<>>,
      categories |-> <<>>, content |-> <<"gopher", "rust">>]}

\* A document with a body of 51 distinct words
LongBody ==
    [id |-> "c", title |-> <<"rust">>, description |-> <<>>, tags |-> <<>>,
     categories |-> <<>>, content |-> FiftyOneWords]

\* One list that repeats a document with the same word in all five fields
\* often enough for the weight of its posting to reach the cap
MaxCopies == 42

EveryField ==
    [id |-> "d", title |-> <<"go">>, description |-> <<"go">>, tags |-> <<"go">>,
     categories |-> <<"go">>, content |-> <<"go">>]

Copies == [i \in 1..MaxCopies |-> EveryField]

SearchLists ==
    UNION {[1..n -> SearchDocs] : n \in 0..MaxDocs}
    \cup {Copies} \cup {<<d, LongBody>> : d \in SearchDocs}

SearchQueries ==
    {NotAString, <<>>, <<"x">>, <<"go">>, <<"Go", "rust">>, <<"gopher">>,
     <<"rust">>, <<"t50">>, <<"t51">>, <<LongWord>>, <<"", "go", LongWord, "Go">>,
     TwelveWords}

ResultLimits == {1, DefaultMaxResults}

MinSearchLengths == {0, 3}

SearchInit ==
    /\ now = 0
    /\ last = [op |-> "new", path |-> "", ret |-> "void"]
    /\ evictionPolicy = "lru"
    /\ maxSize \in MaxSizes
    /\ cache = <<>>
    /\ stats = [hits |-> 0, misses |-> 0]
    /\ inflight = <<>>
    /\ PluginIdle
    /\ store = NewArticleManager
    /\ \E maxResults \in ResultLimits, minSearchLength \in MinSearchLengths :
          engine = [NewSearchEngine(DefaultMaxIndexSize) EXCEPT
                        !.maxResults = maxResults,
                        !.minSearchLength = minSearchLength]
    /\ NewBlogCore

SearchNext ==
    \/ \E articles \in SearchLists : IndexArticles(articles)
    \/ \E query \in SearchQueries : EngineSearch(query)
    \/ EngineClear
    \/ EngineDispose

SearchSpec == SearchInit /\ [][SearchNext]_vars

(***************************************************************************)
(* SearchEngine.tokenize on its own                                        *)
(***************************************************************************)
\* The texts handed to tokenize, as the pieces between their separators
MaxPieces == 3

TextPieces == {"", "go", "Go", "rust", LongWord}

Texts ==
    UNION {[1..n -> TextPieces] : n \in 0..MaxPieces}
    \cup {FiftyOneWords, SubSeq(FiftyOneWords, 1, MaxTokens),
          <<"t01", LongWord, "">> \o FiftyOneWords}

TokenizeText(text) ==
    /\ last' = [op |-> "SearchEngine.tokenize",
                path |-> IF text = <<>> THEN "empty" ELSE "split",
                ret |-> "value",
                text |-> text,
                tokens |-> Tokenize(text)]
    /\ UNCHANGED <<now, cacheVars, pluginVars, coreVars>>

TokenizeInit ==
    /\ now = 0
    /\ last = [op |-> "new", path |-> "", ret |-> "void"]
    /\ evictionPolicy = "lru"
    /\ maxSize \in MaxSizes
    /\ cache = <<>>
    /\ stats = [hits |-> 0, misses |-> 0]
    /\ inflight = <<>>
    /\ PluginIdle
    /\ CoreIdle

TokenizeNext == \E text \in Texts : TokenizeText(text)

TokenizeSpec == TokenizeInit /\ [][TokenizeNext]_vars

(***************************************************************************)
(* ArticleManager: the read operations.  A date is a number whose last     *)
(* digit is the day within its year.                                       *)
(***************************************************************************)
\* Published documents and drafts; two of them share an id
StoreDocs ==
    {[id |-> "a", title |-> <<"Go">>, description |-> <<"rust">>,
      tags |-> <<"x">>, categories |-> <<"k">>, content |-> <<"go">>,
      date |-> 20241, author |-> "", draft |-> FALSE, readingTime |-> 1],
     [id |-> "b", title |-> <<"rust">>, description |-> <<>>,
      tags |-> <<"x", "y">>, categories |-> <<"k">>, content |-> <<"go", "gopher">>,
      date |-> 20251, author |-> "ann", draft |-> TRUE, readingTime |-> 1],
     [id |-> "c", title |-> <<"gopher">>, description |-> <<>>,
      tags |-> <<"y", "x">>, categories |-> <<>>, content |-> <<"rust">>,
      date |-> 20252, author |-> "ann", draft |-> FALSE, readingTime |-> 1],
     [id |-> "a", title |-> <<"Go">>, description |-> <<>>,
      tags |-> <<"y">>, categories |-> <<"k">>, content |-> <<"go">>,
      date |-> 20252, author |-> "", draft |-> TRUE, readingTime |-> 1]}

\* date.getFullYear()
Year(date) == date \div 10

\* getArticles(): the documents in Map order, the drafts left out unless the
\* store is configured with includeDrafts
GetArticles(s) ==
    LET all == [i \in 1..Len(s.articles) |-> s.articles[i].value]
    IN IF s.includeDrafts THEN all ELSE SelectSeq(all, LAMBDA a : ~a.draft)

\* getArticleById(id): the document as a list of one, or no document
GetArticleById(s, id) ==
    IF id = Undefined \/ ~MapHas(s.articles, id) THEN <<>>
    ELSE <<MapGet(s.articles, id).value>>

\* text.toLowerCase().includes(query) on the words of the model
Includes(text, query) ==
    \E i \in 1..Len(text) : StartsWith(ToLowerCase(text[i]), query)

\* filterArticles(articles, {tag, category, year}): "" and 0 stand for an
\* absent field, which is falsy like them
FilterArticles(articles, filter) ==
    SelectSeq(articles, LAMBDA a :
        /\ filter.tag # "" => \E i \in 1..Len(a.tags) : a.tags[i] = filter.tag
        /\ filter.category # ""
           => \E i \in 1..Len(a.categories) : a.categories[i] = filter.category
        /\ filter.year # 0 => Year(a.date) = filter.year)

\* sortArticles(articles, order): a stable sort by date
RECURSIVE SortArticles(_, _)
SortArticles(articles, order) ==
    IF articles = <<>> THEN <<>>
    ELSE LET sorted == SortArticles(SubSeq(articles, 1, Len(articles) - 1), order)
             a == articles[Len(articles)]
             pos == Cardinality({i \in 1..Len(sorted) :
                                    IF order = "asc" THEN sorted[i].date <= a.date
                                    ELSE sorted[i].date >= a.date})
         IN SubSeq(sorted, 1, pos) \o <<a>> \o SubSeq(sorted, pos + 1, Len(sorted))

\* Math.max(1, n)
AtLeastOne(n) == IF n < 1 THEN 1 ELSE n

\* The pagination of getArticleList: it is skipped when page or pageSize is
\* absent or 0; otherwise both are raised to 1 at least
Paginate(articles, options) ==
    IF ~options.given \/ options.page = 0 \/ options.pageSize = 0 THEN articles
    ELSE LET page == AtLeastOne(options.page)
             pageSize == AtLeastOne(options.pageSize)
             start == (page - 1) * pageSize
         IN SubSeq(articles, start + 1,
                   IF start + pageSize > Len(articles) THEN Len(articles)
                   ELSE start + pageSize)

\* getArticleList(filter, options)
GetArticleList(s, filter, options) ==
    LET filtered == FilterArticles(GetArticles(s), filter)
        searched == IF filter.search = "" THEN filtered
                    ELSE SelectSeq(filtered, LAMBDA a :
                             \/ Includes(a.title, ToLowerCase(filter.search))
                             \/ Includes(a.description, ToLowerCase(filter.search))
                             \/ Includes(a.content, ToLowerCase(filter.search)))
        items == Paginate(SortArticles(searched,
                                       IF options.sort = "" THEN "desc"
                                       ELSE options.sort),
                          options)
    IN [items |-> items, total |-> Len(searched), filtered |-> Len(items)]

\* The bounds of the limit of getRelatedArticles
MaxRelated == 100

\* The relevance of candidate for article: 10 for each tag of article the
\* candidate has, 15 for each category, 5 for the same author
Relevance(article, candidate) ==
    10 * Cardinality({i \in 1..Len(article.tags) :
                         \E j \in 1..Len(candidate.tags) :
                             candidate.tags[j] = article.tags[i]})
    + 15 * Cardinality({i \in 1..Len(article.categories) :
                           \E j \in 1..Len(candidate.categories) :
                               candidate.categories[j] = article.categories[i]})
    + (IF article.author # "" /\ article.author = candidate.author THEN 5 ELSE 0)

\* getRelatedArticles(articleId, limit)
GetRelatedArticles(s, articleId, limit) ==
    IF articleId = Undefined \/ ~MapHas(s.articles, articleId) THEN <<>>
    ELSE LET article == MapGet(s.articles, articleId).value
             candidates == SelectSeq(GetArticles(s), LAMBDA a : a.id # articleId)
             scored == [i \in 1..Len(candidates) |->
                           [article |-> candidates[i],
                            score |-> Relevance(article, candidates[i])]]
             related == Slice(SortByScore(SelectSeq(scored, LAMBDA r : r.score > 0)),
                              AtLeastOne(IF limit > MaxRelated THEN MaxRelated
                                         ELSE limit))
         IN [i \in 1..Len(related) |-> related[i].article]

\* getTagStats() and getCategoryStats(): for each tag or category of the
\* documents of getArticles, in order of first occurrence, how often it occurs
CountStats(s, field) ==
    LET docs == GetArticles(s)
        all == Flatten([i \in 1..Len(docs) |-> docs[i][field]], 1, Len(docs))
        keys == Distinct(all)
    IN [k \in 1..Len(keys) |->
           [key |-> keys[k],
            value |-> Cardinality({j \in 1..Len(all) : all[j] = keys[k]})]]

\* getStats()
RECURSIVE TotalWords(_)
TotalWords(docs) ==
    IF docs = <<>> THEN 0
    ELSE Len(SelectSeq(Head(docs).content, LAMBDA w : WordLength(w) > 0))
         + TotalWords(Tail(docs))

RECURSIVE TotalReadingTime(_)
TotalReadingTime(docs) ==
    IF docs = <<>> THEN 0 ELSE Head(docs).readingTime + TotalReadingTime(Tail(docs))

GetStoreStats(s) ==
    LET docs == GetArticles(s)
    IN <<[key |-> "totalArticles", value |-> Len(docs)],
         [key |-> "totalTags", value |-> Len(CountStats(s, "tags"))],
         [key |-> "totalCategories", value |-> Len(CountStats(s, "categories"))],
         [key |-> "totalWords", value |-> TotalWords(docs)],
         [key |-> "averageReadingTime",
          value |-> IF Len(docs) > 0
                    THEN (2 * TotalReadingTime(docs) + Len(docs)) \div (2 * Len(docs))
                    ELSE 0]>>

\* The read calls made: the operation and its arguments
NoFilter == [tag |-> "", category |-> "", year |-> 0, search |-> ""]

Filters ==
    {NoFilter, [NoFilter EXCEPT !.tag = "x"], [NoFilter EXCEPT !.category = "k"],
     [NoFilter EXCEPT !.year = 2025], [NoFilter EXCEPT !.search = "Go"]}

MaxPage == 2

Options ==
    {[given |-> FALSE, sort |-> "", page |-> 0, pageSize |-> 0]}
    \cup [given : {TRUE}, sort : {"", "asc"}, page : -1..MaxPage,
          pageSize : 0..MaxPage]

StoreCalls ==
    [op : {"ArticleManager.getArticles", "ArticleManager.getTagStats",
           "ArticleManager.getCategoryStats", "ArticleManager.getStats"},
     id : {""}, limit : {0}, filter : {NoFilter},
     options : {[given |-> FALSE, sort |-> "", page |-> 0, pageSize |-> 0]}]
    \cup [op : {"ArticleManager.getArticleById"},
          id : {"a", "b", "zz", Undefined}, limit : {0}, filter : {NoFilter},
          options : {[given |-> FALSE, sort |-> "", page |-> 0, pageSize |-> 0]}]
    \cup [op : {"ArticleManager.getRelatedArticles"},
          id : {"a", "b", "c", Undefined}, limit : {0, 3}, filter : {NoFilter},
          options : {[given |-> FALSE, sort |-> "", page |-> 0, pageSize |-> 0]}]
    \cup [op : {"ArticleManager.getArticleList"},
          id : {""}, limit : {0}, filter : Filters, options : Options]

\* What a read call returns: the documents, the totals of a list, the counts
\* of a statistic
StoreReadResult(s, call) ==
    LET none == [docs |-> <<>>, total |-> 0, filtered |-> 0, counts |-> <<>>]
    IN CASE call.op = "ArticleManager.getArticles" ->
                [none EXCEPT !.docs = GetArticles(s)]
         [] call.op = "ArticleManager.getArticleById" ->
                [none EXCEPT !.docs = GetArticleById(s, call.id)]
         [] call.op = "ArticleManager.getArticleList" ->
                [none EXCEPT !.docs = GetArticleList(s, call.filter, call.options).items,
                             !.total = GetArticleList(s, call.filter, call.options).total,
                             !.filtered = GetArticleList(s, call.filter,
                                                         call.options).filtered]
         [] call.op = "ArticleManager.getRelatedArticles" ->
                [none EXCEPT !.docs = GetRelatedArticles(s, call.id, call.limit)]
         [] call.op = "ArticleManager.getTagStats" ->
                [none EXCEPT !.counts = CountStats(s, "tags")]
         [] call.op = "ArticleManager.getCategoryStats" ->
                [none EXCEPT !.counts = CountStats(s, "categories")]
         [] call.op = "ArticleManager.getStats" ->
                [none EXCEPT !.counts = GetStoreStats(s)]

\* A read call on the store: checkDisposed first, then the result
ReadStore(call) ==
    /\ last' = [op |-> call.op,
                path |-> IF store.disposed THEN "disposed" ELSE "live",
                ret |-> IF store.disposed THEN "throw" ELSE "value",
                call |-> call,
                result |-> IF store.disposed
                           THEN [docs |-> <<>>, total |-> 0, filtered |-> 0,
                                 counts |-> <<>>]
                           ELSE StoreReadResult(store, call)]
    /\ UNCHANGED <<now, cacheVars, pluginVars, coreVars>>

StoreInit ==
    /\ now = 0
    /\ last = [op |-> "new", path |-> "", ret |-> "void"]
    /\ evictionPolicy = "lru"
    /\ maxSize \in MaxSizes
    /\ cache = <<>>
    /\ stats = [hits |-> 0, misses |-> 0]
    /\ inflight = <<>>
    /\ PluginIdle
    /\ \E includeDrafts \in BOOLEAN :
          store = [NewArticleManager EXCEPT !.includeDrafts = includeDrafts]
    /\ engine = NewSearchEngine(DefaultMaxIndexSize)
    /\ NewBlogCore

StoreNext ==
    \/ \E article \in StoreDocs : AddArticle(article)
    \/ \E call \in StoreCalls : ReadStore(call)
    \/ StoreClear

StoreSpec == StoreInit /\ [][StoreNext]_vars

(***************************************************************************)
(* parseFrontmatter and createArticleFromMarkdown on a content with a      *)
(* metadata block.  A content is the sequence of its lines; a line is the  *)
(* fence "---", a "key: value" line or a line of text.                     *)
(***************************************************************************)
Fence == [kind |-> "fence", key |-> "", value |-> "---"]

Pair(key, value) == [kind |-> "pair", key |-> key, value |-> value]

TextLine(text) == [kind |-> "text", key |-> "", value |-> text]

\* The texts after the colon of a "key: value" line
ValueTexts ==
    {"", "Hello", "true", "false", "0", "7", "2024-05-01", "[x,y]",
     "[\"x\",\"y\"]", "[\" x\",\"\"]", "[]"}

\* value.startsWith('[') && value.endsWith(']')
Bracketed(value) == value \in {"[x,y]", "[\"x\",\"y\"]", "[\" x\",\"\"]", "[]"}

\* JSON.parse(value) of a bracketed text: bare words are no JSON
JsonParse(value) ==
    CASE value = "[\"x\",\"y\"]" -> [threw |-> FALSE, items |-> <<"x", "y">>]
      [] value = "[\" x\",\"\"]" -> [threw |-> FALSE, items |-> <<" x", "">>]
      [] value = "[]" -> [threw |-> FALSE, items |-> <<>>]
      [] OTHER -> [threw |-> TRUE, items |-> <<>>]

\* A parsed value: its type, its text and, for an array, its elements
Value(kind, text, items) == [kind |-> kind, text |-> text, items |-> items]

NoValue == Value("undefined", "", <<>>)

\* parseValue(value)
ParseValue(value) ==
    CASE value = "" -> Value("null", "", <<>>)
      [] value \in {"true", "false"} -> Value("boolean", value, <<>>)
      [] value \in {"0", "7"} -> Value("number", value, <<>>)
      [] value = "2024-05-01" -> Value("date", value, <<>>)
      [] Bracketed(value) ->
             IF JsonParse(value).threw THEN Value("string", value, <<>>)
             ELSE Value("array", "", JsonParse(value).items)
      [] OTHER -> Value("string", value, <<>>)

\* parseFrontmatterYAML(lines): the "key: value" lines with a value, a later
\* line overwriting an earlier one with the same key
RECURSIVE ParseFrontmatterYAML(_, _)
ParseFrontmatterYAML(data, lines) ==
    IF lines = <<>> THEN data
    ELSE LET line == Head(lines)
         IN IF line.kind = "pair" /\ line.value # ""
            THEN ParseFrontmatterYAML(
                     MapSet(data, line.key,
                            [key |-> line.key, value |-> ParseValue(line.value)]),
                     Tail(lines))
            ELSE ParseFrontmatterYAML(data, Tail(lines))

\* The closing fence the pattern /^---\n([\s\S]*?)\n---\n([\s\S]*)$/ finds:
\* the first fence from line 3 on that is followed by a line; 0 if the
\* content does not start with a fence or has no such closing fence
ClosingFence(lines) ==
    LET fences == {j \in 3..(Len(lines) - 1) : lines[j].kind = "fence"}
    IN IF Len(lines) = 0 \/ lines[1].kind # "fence" \/ fences = {} THEN 0
       ELSE CHOOSE j \in fences : \A k \in fences : j <= k

\* The text of lines, as the body of a document
TextOf(lines) == [i \in 1..Len(lines) |-> lines[i].value]

\* parseFrontmatter(content)
ParseFrontmatter(lines) ==
    IF ClosingFence(lines) = 0 THEN [data |-> <<>>, content |-> TextOf(lines)]
    ELSE [data |-> ParseFrontmatterYAML(
                       <<>>, SubSeq(lines, 2, ClosingFence(lines) - 1)),
          content |-> TextOf(SubSeq(lines, ClosingFence(lines) + 1, Len(lines)))]

\* data[key], undefined for a missing key
DataGet(data, key) == IF MapHas(data, key) THEN MapGet(data, key).value ELSE NoValue

\* A value that is falsy in "data['title'] || id"
Falsy(v) ==
    \/ v.kind \in {"undefined", "null"}
    \/ v.kind = "boolean" /\ v.text = "false"
    \/ v.kind = "number" /\ v.text = "0"

\* String(t).trim() of the elements, the empty ones dropped
TrimAll(items) ==
    SelectSeq([i \in 1..Len(items) |-> IF items[i] = " x" THEN "x" ELSE items[i]],
              LAMBDA t : t # "")

\* createArticleFromMarkdown(id, content) at time t for a content given by
\* its lines; the description of a content without one is the summary of the
\* body, a short body whole
CreateFromMarkdown(id, lines, t) ==
    LET parsed == ParseFrontmatter(lines)
        data == parsed.data
    IN IF id = Undefined \/ id = ""
       THEN [threw |-> TRUE, article |-> [id |-> Undefined]]
       ELSE [threw |-> FALSE,
             article |->
                 [id |-> id,
                  title |-> IF Falsy(DataGet(data, "title")) THEN id
                            ELSE DataGet(data, "title").text,
                  description |-> parsed.content,
                  content |-> parsed.content,
                  date |-> t,
                  tags |-> IF DataGet(data, "tags").kind = "array"
                           THEN TrimAll(DataGet(data, "tags").items) ELSE <<>>,
                  categories |-> IF DataGet(data, "categories").kind = "array"
                                 THEN TrimAll(DataGet(data, "categories").items)
                                 ELSE <<>>,
                  draft |-> DataGet(data, "draft") = Value("boolean", "true", <<>>)]]

\* The contents handed to createArticleFromMarkdown: with and without the
\* opening and the closing fence, with a title line, a tags line and a draft
\* line or without them, with and without a body
TitleTexts == {"", "Hello", "false", "0", "7"}

TagsTexts == {"[x,y]", "[\"x\",\"y\"]", "[\" x\",\"\"]", "[]", "Hello"}

DraftTexts == {"true", "false", "2024-05-01"}

PairLines ==
    {<<>>}
    \cup {<<Pair("title", title), Pair("tags", tags)>> :
             title \in TitleTexts, tags \in TagsTexts}
    \cup {<<Pair("draft", draft), Pair("title", "Hello"), Pair("title", title)>> :
             draft \in DraftTexts, title \in TitleTexts}

Contents ==
    {(IF open THEN <<Fence>> ELSE <<>>) \o pairs
     \o (IF close THEN <<Fence>> ELSE <<>>) \o body :
        open \in BOOLEAN, close \in BOOLEAN, pairs \in PairLines,
        body \in {<<>>, <<TextLine("Body text")>>}}

\* createArticleFromMarkdown(id, content) called on the store
CreateFromContent(id, lines) ==
    /\ last' = [op |-> "ArticleManager.createArticleFromMarkdown",
                path |-> IF ClosingFence(lines) = 0 THEN "plain" ELSE "frontmatter",
                ret |-> IF CreateFromMarkdown(id, lines, now).threw
                        THEN "throw" ELSE "article",
                id |-> id,
                lines |-> lines,
                article |-> CreateFromMarkdown(id, lines, now).article]
    /\ UNCHANGED <<now, cacheVars, pluginVars, coreVars>>

ContentInit ==
    /\ now = 0
    /\ last = [op |-> "new", path |-> "", ret |-> "void"]
    /\ evictionPolicy = "lru"
    /\ maxSize \in MaxSizes
    /\ cache = <<>>
    /\ stats = [hits |-> 0, misses |-> 0]
    /\ inflight = <<>>
    /\ PluginIdle
    /\ CoreIdle

ContentNext ==
    \E id \in {"a", ""}, lines \in Contents : CreateFromContent(id, lines)

ContentSpec == ContentInit /\ [][ContentNext]_vars

(***************************************************************************)
(* BlogCore: the top-level engine over its store, its search engine and    *)
(* its own plugin manager.                                                 *)
(***************************************************************************)
\* The items handed to initialize: two loadable items (one with an empty
\* body), an item whose id createArticleFromMarkdown refuses, an item whose
\* id is no string, and an item whose id or content cannot be read (the read
\* throws)
ItemInputs ==
    {[kind |-> "doc", id |-> "a", content |-> <<"w">>],
     [kind |-> "doc", id |-> "b", content |-> <<>>],
     [kind |-> "doc", id |-> "", content |-> <<"w">>],
     [kind |-> "invalid", id |-> Undefined, content |-> <<>>],
     [kind |-> "throws", id |-> Undefined, content |-> <<>>]}

MaxItems == 2

ItemLists == UNION {[1..n -> ItemInputs] : n \in 0..MaxItems}

\* A value handed to initialize that is no array
NotAnItemArray == <<[kind |-> "notAnArray", id |-> Undefined, content |-> <<>>]>>

\* How plugins.processArticle(article) settles for initialize: it resolves
\* with the document as it was, resolves with the document rewritten by a
\* processor, or rejects
ProcessResults == {"same", "changed", "throw"}

Processed(article, outcome) ==
    IF outcome = "changed" THEN [article EXCEPT !.tags = <<"x">>] ELSE article

MaxLoads == 2
MaxTasks == 1

\* try { articles.clear(); searchEngine.clear() } catch: a throw of the first
\* skips the second
ClearBoth(st) ==
    IF StoreClearResult(st.store).threw THEN st
    ELSE [st EXCEPT !.store = StoreClearResult(st.store).store,
                    !.engine = EngineClearResult(st.engine).engine]

\* A faulty variant of LoadFailed: the partial state is left in place
LoadFailedKeepsState(st) == [st EXCEPT !.core.initializing = FALSE]

\* The outer catch of initialize
LoadFailed(st) == ClearBoth([st EXCEPT !.core.initializing = FALSE])

\* The end of initialize after its loop: the index is built if any document
\* was loaded (a throw of indexArticles is caught), then the flags are set
LoadFinish(st, processedArticles) ==
    [st EXCEPT !.engine = IF processedArticles # <<>>
                          THEN IndexArticlesResult(@, processedArticles)
                          ELSE @,
               !.core.initialized = TRUE,
               !.core.initializing = FALSE]

\* The loop of initialize from item i, up to its next await or its end
RECURSIVE LoadLoop(_, _, _, _)
LoadLoop(st, items, i, processedArticles) ==
    IF i > Len(items)
    THEN [st |-> LoadFinish(st, processedArticles), phase |-> "loaded", i |-> i,
          article |-> [id |-> Undefined], processedArticles |-> processedArticles]
    ELSE IF items[i].kind = "invalid"
    THEN LoadLoop(st, items, i + 1, processedArticles)
    ELSE IF items[i].kind = "throws"
    THEN [st |-> LoadFailed(st), phase |-> "failed", i |-> i,
          article |-> [id |-> Undefined], processedArticles |-> processedArticles]
    ELSE IF CreateArticleFromMarkdown(items[i].id, items[i].content).threw
    THEN LoadLoop(st, items, i + 1, processedArticles)
    ELSE [st |-> st, phase |-> "await", i |-> i,
          article |-> CreateArticleFromMarkdown(items[i].id, items[i].content).article,
          processedArticles |-> processedArticles]

\* A faulty variant of InitializePath: no check of the initializing flag
InitializePathNoProgressCheck(c, items) ==
    IF c.disposed THEN "disposed"
    ELSE IF c.initialized THEN "already"
    ELSE IF items = NotAnItemArray THEN "notAnArray"
    ELSE IF items = <<>> THEN "empty"
    ELSE "loading"

\* The checks of initialize before its loop
InitializePath(c, items) ==
    IF c.disposed THEN "disposed"
    ELSE IF c.initialized THEN "already"
    ELSE IF c.initializing THEN "inProgress"
    ELSE IF items = NotAnItemArray THEN "notAnArray"
    ELSE IF items = <<>> THEN "empty"
    ELSE "loading"

\* The state after a step of initialize that ran the loop to result r; call k
\* of loads is the one that ran (0: a new call)
LoadStep(r, items, k) ==
    /\ store' = r.st.store
    /\ engine' = r.st.engine
    /\ core' = r.st.core
    /\ LET load == [items |-> items, i |-> r.i, article |-> r.article,
                    processedArticles |-> r.processedArticles]
       IN loads' = IF r.phase = "await"
                   THEN IF k = 0 THEN Append(loads, load)
                        ELSE [loads EXCEPT ![k] = load]
                   ELSE IF k = 0 THEN loads
                   ELSE [j \in 1..(Len(loads) - 1) |->
                             IF j < k THEN loads[j] ELSE loads[j + 1]]
    /\ last' = [op |-> "BlogCore.initialize",
                path |-> IF r.phase = "await" THEN "loading" ELSE r.phase,
                ret |-> IF r.phase = "await" THEN "pending" ELSE "resolved"]

\* initialize(items), up to its first await
Initialize(items) ==
    /\ Len(loads) < MaxLoads
    /\ LET path == InitializePath(core, items)
       IN IF path = "loading"
          THEN LoadStep(LoadLoop([store |-> store, engine |-> engine,
                                  core |-> [core EXCEPT !.initializing = TRUE]],
                                 items, 1, <<>>), items, 0)
          ELSE /\ core' = IF path = "empty"
                          THEN [core EXCEPT !.initialized = TRUE] ELSE core
               /\ last' = [op |-> "BlogCore.initialize", path |-> path,
                           ret |-> IF path \in {"disposed", "notAnArray"}
                                   THEN "throw" ELSE "resolved"]
               /\ UNCHANGED <<store, engine, loads>>
    /\ UNCHANGED <<now, cacheVars, pluginVars, tasks, peer, emitter>>

\* A faulty variant of LoadSettled: the index is rebuilt after every document
\* instead of once after the loop
LoadSettledIndexesEarly(k, outcome) ==
    /\ k \in 1..Len(loads)
    /\ LET load == loads[k]
           processed == Processed(load.article, outcome)
           added == AddArticlePath(store, processed) = "added"
           processedArticles == IF added THEN Append(load.processedArticles, processed)
                                ELSE load.processedArticles
       IN LoadStep(LoadLoop([store |-> AddArticleResult(store, processed),
                             engine |-> IndexArticlesResult(engine, processedArticles),
                             core |-> core],
                            load.items, load.i + 1, processedArticles),
                   load.items, k)
    /\ UNCHANGED <<now, cacheVars, pluginVars, tasks, peer, emitter>>

\* plugins.processArticle settles for call k of initialize: the document is
\* added to the store (a throw of addArticle skips it) and the loop goes on
LoadSettled(k, outcome) ==
    /\ k \in 1..Len(loads)
    /\ LET load == loads[k]
           processed == Processed(load.article, outcome)
           added == AddArticlePath(store, processed) = "added"
       IN LoadStep(LoadLoop([store |-> AddArticleResult(store, processed),
                             engine |-> engine, core |-> core],
                            load.items, load.i + 1,
                            IF added THEN Append(load.processedArticles, processed)
                            ELSE load.processedArticles),
                   load.items, k)
    /\ UNCHANGED <<now, cacheVars, pluginVars, tasks, peer, emitter>>

\* isInitialized(): no check of the disposed flag, it is part of the answer
IsInitialized ==
    /\ last' = [op |-> "BlogCore.isInitialized",
                path |-> IF core.disposed THEN "disposed" ELSE "live",
                ret |-> IF core.initialized /\ ~core.disposed
                        THEN "true" ELSE "false"]
    /\ UNCHANGED <<now, cacheVars, pluginVars, coreVars>>

\* getStats, getArticles and findArticles: checkDisposed, then the component
\* is asked and its throw is turned into an empty answer
CoreReadOps == {"BlogCore.getStats", "BlogCore.getArticles", "BlogCore.findArticles"}

CoreRead(op) ==
    /\ last' = [op |-> op,
                path |-> IF core.disposed THEN "disposed" ELSE "live",
                ret |-> IF core.disposed THEN "throw" ELSE "value"]
    /\ UNCHANGED <<now, cacheVars, pluginVars, coreVars>>

\* cleanup() and dispose() of an engine whose plugin manager holds no plugin,
\* up to the first await: plugins.cleanup() empties both chains at once
CoreTask(op) ==
    /\ pm.activePlugins = <<>>
    /\ IF core.disposed
       THEN /\ last' = [op |-> op, path |-> "noop", ret |-> "resolved"]
            /\ UNCHANGED <<pm, chainVars, tasks>>
       ELSE /\ Len(tasks) < MaxTasks
            /\ pm' = [pm EXCEPT !.articleProcessors = <<>>,
                                !.searchExtensions = <<>>]
            /\ DetachChains(TRUE)
            /\ tasks' = Append(tasks, [op |-> op, phase |-> "cleanup"])
            /\ last' = [op |-> op, path |-> "cleanup", ret |-> "pending"]
    /\ UNCHANGED <<now, cacheVars, hung, config, calls, cleanup, store, engine, core,
                   loads, peer, emitter>>

CoreCleanup == CoreTask("BlogCore.cleanup")

CoreDispose == CoreTask("BlogCore.dispose")

\* disposeArticleManager(); disposeSearchEngine(); this.disposed = true: each
\* disposes the instance its global variable still holds, and a throw leaves
\* the rest undone
DisposeGlobals(st) ==
    IF st.store.global /\ StoreDisposeResult(st.store).threw THEN st
    ELSE LET s == IF st.store.global
                  THEN [StoreDisposeResult(st.store).store EXCEPT !.global = FALSE]
                  ELSE st.store
         IN IF st.engine.global /\ EngineDisposeResult(st.engine).threw
            THEN [st EXCEPT !.store = s]
            ELSE [st EXCEPT
                      !.store = s,
                      !.engine = IF @.global
                                 THEN [EngineDisposeResult(@).engine
                                           EXCEPT !.global = FALSE]
                                 ELSE @,
                      !.core.disposed = TRUE]

\* cleanup() or dispose() resumes after an await.  After plugins.cleanup(),
\* store and index are cleared; dispose then awaits disposePluginManager(),
\* which disposes the global plugin manager, not this.plugins, and ends with
\* DisposeGlobals
TaskResume(k) ==
    /\ k \in 1..Len(tasks)
    /\ LET task == tasks[k]
           st == [store |-> store, engine |-> engine, core |-> core]
           next == IF task.phase = "cleanup" THEN ClearBoth(st)
                   ELSE DisposeGlobals(st)
           over == task.phase = "globals" \/ task.op = "BlogCore.cleanup"
       IN /\ store' = next.store
          /\ engine' = next.engine
          /\ core' = next.core
          /\ tasks' = IF over
                      THEN [j \in 1..(Len(tasks) - 1) |->
                                IF j < k THEN tasks[j] ELSE tasks[j + 1]]
                      ELSE [tasks EXCEPT ![k].phase = "globals"]
          /\ last' = [op |-> task.op,
                      path |-> IF task.phase = "cleanup" THEN "cleared"
                               ELSE IF next.core.disposed THEN "disposed"
                               ELSE "failed",
                      ret |-> IF over THEN "resolved" ELSE "pending"]
    /\ UNCHANGED <<now, cacheVars, pluginVars, loads, peer, emitter>>

CoreInit ==
    /\ now = 0
    /\ last = [op |-> "new", path |-> "", ret |-> "void"]
    /\ evictionPolicy = "lru"
    /\ maxSize \in MaxSizes
    /\ cache = <<>>
    /\ stats = [hits |-> 0, misses |-> 0]
    /\ inflight = <<>>
    /\ PluginIdle
    /\ CoreIdle

CoreNext ==
    \/ \E items \in ItemLists \cup {NotAnItemArray} : Initialize(items)
    \/ \E k \in 1..MaxLoads, outcome \in ProcessResults : LoadSettled(k, outcome)
    \/ IsInitialized
    \/ \E op \in CoreReadOps : CoreRead(op)
    \/ CoreCleanup
    \/ CoreDispose
    \/ \E k \in 1..MaxTasks : TaskResume(k)

CoreSpec == CoreInit /\ [][CoreNext]_vars

(***************************************************************************)
(* The four components side by side, each called directly: the store and   *)
(* the search engine through blog.articles and blog.searchEngine, the      *)
(* plugin manager through blog.plugins.                                    *)
(***************************************************************************)
\* getPlugins, getActivePlugins, getPluginInfo and getProcessorStats: each
\* calls checkDisposed first and changes nothing
PluginReadOps == {"getPlugins", "getActivePlugins", "getPluginInfo",
                  "getProcessorStats"}

PluginRead(op) ==
    /\ last' = [op |-> op,
                path |-> IF pm.disposed THEN "disposed" ELSE "live",
                ret |-> IF pm.disposed THEN "rejected" ELSE "value"]
    /\ UNCHANGED <<now, cacheVars, pluginVars, coreVars>>

\* cleanup() called on a manager without active plugins: the loop is empty
\* and both chains are emptied; there is no check of the disposed flag
PluginCleanup ==
    /\ cleanup.phase = "idle"
    /\ pm.activePlugins = <<>>
    /\ pm' = [pm EXCEPT !.articleProcessors = <<>>, !.searchExtensions = <<>>]
    /\ DetachChains(TRUE)
    /\ last' = [op |-> "cleanup",
                path |-> IF pm.disposed THEN "disposed" ELSE "live",
                ret |-> "resolved"]
    /\ UNCHANGED <<now, hung, config, calls, cleanup, cacheVars, coreVars>>

\* The inputs of the calls made on the components
DisposeDocs == {CreateArticleFromMarkdown("a", <<"w">>).article, [id |-> Undefined]}

DisposeLists == {<<>>, <<CreateArticleFromMarkdown("a", <<"w">>).article>>}

DisposeItems == {<<>>, <<[kind |-> "doc", id |-> "a", content |-> <<"w">>]>>}

DisposeNext ==
    \/ \E article \in DisposeDocs : AddArticle(article)
    \/ \E id \in {"a", ""} : CreateArticle(id, <<"w">>)
    \/ \E op \in StoreReadOps : StoreRead(op)
    \/ StoreClear
    \/ StoreDispose
    \/ \E articles \in DisposeLists : IndexArticles(articles)
    \/ \E op \in EngineReadOps : EngineRead(op)
    \/ EngineClear
    \/ EngineDispose
    \/ \E name \in NameInputs : UnregisterPlugin(name)
    \/ \E fn \in {HookFn, NotAFunction} : RegisterArticleProcessor("p", fn)
    \/ \E op \in PluginReadOps : PluginRead(op)
    \/ PluginCleanup
    \/ Dispose
    \/ \E items \in DisposeItems : Initialize(items)
    \/ \E k \in 1..MaxLoads, outcome \in ProcessResults : LoadSettled(k, outcome)
    \/ IsInitialized
    \/ \E op \in CoreReadOps : CoreRead(op)
    \/ CoreCleanup
    \/ CoreDispose
    \/ \E k \in 1..MaxTasks : TaskResume(k)

DisposeSpec == CoreInit /\ [][DisposeNext]_vars

(***************************************************************************)
(* Searches while the index is rebuilt, by indexArticles called directly   *)
(* and by initialize.  indexArticles has no await: it runs from its clear  *)
(* to the end of its loop before any other call can run.                   *)
(***************************************************************************)
\* The items handed to initialize and the lists handed to indexArticles
RebuildItems ==
    {[kind |-> "doc", id |-> "a", content |-> <<"go">>],
     [kind |-> "doc", id |-> "b", content |-> <<"go", "rust">>],
     [kind |-> "throws", id |-> Undefined, content |-> <<>>]}

RebuildItemLists == UNION {[1..n -> RebuildItems] : n \in 1..MaxItems}

RebuildDocs ==
    {CreateArticleFromMarkdown("b", <<"rust">>).article,
     CreateArticleFromMarkdown("c", <<"go">>).article}

RebuildLists == UNION {[1..n -> RebuildDocs] : n \in 0..MaxDocs}

RebuildNext ==
    \/ \E items \in RebuildItemLists : Initialize(items)
    \/ \E k \in 1..MaxLoads, outcome \in ProcessResults : LoadSettled(k, outcome)
    \/ \E articles \in RebuildLists : IndexArticles(articles)
    \/ \E query \in {<<"go">>, <<"rust">>} : EngineSearch(query)

RebuildSpec == CoreInit /\ [][RebuildNext]_vars

(***************************************************************************)
(* Two BlogCore instances.  The constructor takes its store from           *)
(* createArticleManager() and its search engine from createSearchEngine(), *)
(* which return the instance the module variable holds once there is one:  *)
(* the second instance works on the store and the search engine of the     *)
(* first.  Its plugin manager is its own and holds no plugin here.         *)
(***************************************************************************)
\* A second BlogCore constructed right after the first
NewPeer == [built |-> TRUE, disposed |-> FALSE, phase |-> "idle", op |-> ""]

PeerOps == {"peer.articles.addArticle", "peer.cleanup", "peer.dispose"}

\* peer.articles.addArticle(article): the store is the shared one
PeerAddArticle(article) ==
    /\ peer.built
    /\ store' = AddArticleResult(store, article)
    /\ last' = [op |-> "peer.articles.addArticle",
                path |-> AddArticlePath(store, article),
                ret |-> IF AddArticlePath(store, article) = "added"
                        THEN "void" ELSE "throw"]
    /\ UNCHANGED <<now, cacheVars, pluginVars, engine, core, loads, tasks, peer, emitter>>

\* peer.cleanup() and peer.dispose() up to the first await, which is on the
\* cleanup of the peer's own plugin manager
PeerTask(op) ==
    /\ peer.built
    /\ peer.phase = "idle"
    /\ peer' = IF peer.disposed THEN peer
               ELSE [peer EXCEPT !.phase = "cleanup", !.op = op]
    /\ last' = [op |-> op, path |-> IF peer.disposed THEN "noop" ELSE "cleanup",
                ret |-> IF peer.disposed THEN "resolved" ELSE "pending"]
    /\ UNCHANGED <<now, cacheVars, pluginVars, store, engine, core, loads, tasks, emitter>>

\* peer.cleanup() or peer.dispose() resumes after an await: store and index
\* are cleared; dispose then awaits disposePluginManager() and ends with
\* disposeArticleManager(), disposeSearchEngine() and its own disposed flag
PeerResume ==
    /\ peer.built
    /\ peer.phase # "idle"
    /\ LET st == [store |-> store, engine |-> engine, core |-> peer]
           next == IF peer.phase = "cleanup" THEN ClearBoth(st)
                   ELSE DisposeGlobals(st)
           over == peer.phase = "globals" \/ peer.op = "peer.cleanup"
       IN /\ store' = next.store
          /\ engine' = next.engine
          /\ peer' = [next.core EXCEPT !.phase = IF over THEN "idle" ELSE "globals"]
          /\ last' = [op |-> peer.op,
                      path |-> IF peer.phase = "cleanup" THEN "cleared"
                               ELSE IF next.core.disposed THEN "disposed"
                               ELSE "failed",
                      ret |-> IF over THEN "resolved" ELSE "pending"]
    /\ UNCHANGED <<now, cacheVars, pluginVars, core, loads, tasks, emitter>>

TwoInit ==
    /\ now = 0
    /\ last = [op |-> "new", path |-> "", ret |-> "void"]
    /\ evictionPolicy = "lru"
    /\ maxSize \in MaxSizes
    /\ cache = <<>>
    /\ stats = [hits |-> 0, misses |-> 0]
    /\ inflight = <<>>
    /\ PluginIdle
    /\ store = NewArticleManager
    /\ engine = NewSearchEngine(DefaultMaxIndexSize)
    /\ core = [initialized |-> FALSE, initializing |-> FALSE, disposed |-> FALSE]
    /\ loads = <<>>
    /\ tasks = <<>>
    /\ peer = NewPeer
    /\ emitter = NewEmitter

TwoNext ==
    \/ \E items \in DisposeItems : Initialize(items)
    \/ \E k \in 1..MaxLoads, outcome \in ProcessResults : LoadSettled(k, outcome)
    \/ \E article \in DisposeDocs : AddArticle(article)
    \/ \E op \in StoreReadOps : StoreRead(op)
    \/ \E op \in CoreReadOps : CoreRead(op)
    \/ \E query \in {<<"w">>, <<"go">>} : EngineSearch(query)
    \/ CoreCleanup
    \/ CoreDispose
    \/ \E k \in 1..MaxTasks : TaskResume(k)
    \/ \E article \in DisposeDocs : PeerAddArticle(article)
    \/ \E op \in {"peer.cleanup", "peer.dispose"} : PeerTask(op)
    \/ PeerResume

TwoSpec == TwoInit /\ [][TwoNext]_vars

(***************************************************************************)
(* EventEmitter.  A middleware is the sequence of what its body does:      *)
(* "next" (await next()), "catch" (try { await next() } catch {}), "fire"  *)
(* (next() without awaiting its promise), "io" (await of something outside *)
(* the emitter) and "throw"; at the end of the sequence it returns.  A     *)
(* thread is a chain of calls each awaited by the one below it; the only   *)
(* place where a thread waits is "io".  The order of the microtasks of     *)
(* promises that are already settled is not modelled.                      *)
(***************************************************************************)
MaxMiddlewares == 3
MaxListeners == 1

Middlewares ==
    {<<"next">>, <<"next", "next">>, <<"fire">>, <<"io", "next">>, <<"throw">>,
     <<>>, <<"catch">>}

\* The middleware on top of the stack of thread t, and what it is about to do
TopFrame(t) == t.stack[Len(t.stack)]

Pop(stack) == SubSeq(stack, 1, Len(stack) - 1)

\* The stack after its top call returned: the caller goes on behind the call
Returned(stack) ==
    IF Len(stack) <= 1 THEN <<>>
    ELSE [Pop(stack) EXCEPT ![Len(stack) - 1].pc = @ + 1]

\* The stack after its top call threw: the calls below it, each inside
\* "await middleware(data, next)" of next, rethrow in turn down to the first
\* one that awaits inside a try; failed lists the calls that ended by the throw
RECURSIVE Unwind(_, _, _)
Unwind(stack, middlewares, failed) ==
    IF stack = <<>> THEN [stack |-> <<>>, failed |-> failed, caught |-> FALSE]
    ELSE LET f == stack[Len(stack)]
             body == middlewares[f.mw]
         IN IF f.pc <= Len(body) /\ body[f.pc] = "catch"
            THEN [stack |-> [stack EXCEPT ![Len(stack)].pc = @ + 1],
                  failed |-> failed, caught |-> TRUE]
            ELSE Unwind(Pop(stack), middlewares,
                        Append(failed, [ev |-> "fail", mw |-> f.mw]))

\* The listeners are invoked, one after the other
Listeners(n) == [k \in 1..n |-> [ev |-> "listener", mw |-> k]]

\* The running thread gives the control back: to the thread that called it
\* without awaiting, or to nobody
Yield(e, state) ==
    [e EXCEPT !.threads[e.cur].state = state,
              !.threads[e.cur].parent = 0,
              !.cur = e.threads[e.cur].parent]

\* next(): the middleware at index is invoked and index moves on (line 97);
\* at the end of the array next returns at once (lines 93-95)
\* One step of the running thread
Step(e) ==
    LET c == e.cur
        t == e.threads[c]
    IN IF t.stack = <<>>
       THEN \* the chain of this thread is through; for the thread of emit the
            \* listeners follow (lines 67-83)
            IF c = 1
            THEN [Yield(e, "done") EXCEPT !.phase = "resolved",
                                          !.log = e.log \o Listeners(e.listeners)]
            ELSE Yield(e, "done")
       ELSE LET f == TopFrame(t)
                body == e.middlewares[f.mw]
                atEnd == e.index >= Len(e.middlewares)
                callee == [mw |-> e.index + 1, pc |-> 1]
            IN IF f.pc > Len(body)
               THEN [e EXCEPT !.threads[c].stack = Returned(t.stack),
                              !.log = Append(@, [ev |-> "exit", mw |-> f.mw])]
               ELSE CASE body[f.pc] \in {"next", "catch"} ->
                            IF atEnd
                            THEN [e EXCEPT !.threads[c].stack[Len(t.stack)].pc = @ + 1]
                            ELSE [e EXCEPT !.threads[c].stack = Append(@, callee),
                                           !.index = @ + 1,
                                           !.log = Append(@, [ev |-> "enter",
                                                              mw |-> callee.mw])]
                      [] body[f.pc] = "fire" ->
                            IF atEnd
                            THEN [e EXCEPT !.threads[c].stack[Len(t.stack)].pc = @ + 1]
                            ELSE [e EXCEPT !.threads[c].stack[Len(t.stack)].pc = @ + 1,
                                           !.threads = Append(@, [stack |-> <<callee>>,
                                                                  state |-> "run",
                                                                  parent |-> c]),
                                           !.cur = Len(e.threads) + 1,
                                           !.index = @ + 1,
                                           !.log = Append(@, [ev |-> "enter",
                                                              mw |-> callee.mw])]
                      [] body[f.pc] = "io" ->
                            Yield([e EXCEPT !.threads[c].stack[Len(t.stack)].pc = @ + 1],
                                  "io")
                      [] OTHER ->
                            LET u == Unwind(t.stack, e.middlewares, <<>>)
                                e1 == [e EXCEPT !.threads[c].stack = u.stack,
                                                !.log = Append(@, [ev |-> "throw",
                                                                   mw |-> f.mw])
                                                          \o u.failed]
                            IN IF u.caught THEN e1
                               ELSE IF c = 1
                               THEN [Yield(e1, "failed") EXCEPT !.phase = "rejected"]
                               ELSE Yield(e1, "failed")

\* The emitter runs until no thread can go on
RECURSIVE Run(_)
Run(e) == IF e.cur = 0 THEN e ELSE Run(Step(e))

\* emit(data) up to the first call of next by executeMiddlewareChain; without
\* middlewares the chain is skipped (lines 62-64)
Started(e) ==
    [e EXCEPT !.phase = "running",
              !.index = IF e.middlewares = <<>> THEN 0 ELSE 1,
              !.threads = <<[stack |-> IF e.middlewares = <<>> THEN <<>>
                                       ELSE <<[mw |-> 1, pc |-> 1]>>,
                             state |-> "run", parent |-> 0]>>,
              !.cur = 1,
              !.log = IF e.middlewares = <<>> THEN <<>>
                      ELSE <<[ev |-> "enter", mw |-> 1]>>]

\* Some call of the emit made last is waiting
Waiting(e) == \E k \in 1..Len(e.threads) : e.threads[k].state = "io"

\* use(middleware)
Use(middleware) ==
    /\ Len(emitter.middlewares) < MaxMiddlewares
    /\ ~Waiting(emitter)
    /\ emitter' = [emitter EXCEPT !.middlewares = Append(@, middleware)]
    /\ last' = [op |-> "EventEmitter.use", path |-> "", ret |-> "void"]
    /\ UNCHANGED <<now, cacheVars, pluginVars, store, engine, core, loads, tasks, peer>>

\* on(listener), the listener being a function that returns no promise
On ==
    /\ emitter.listeners < MaxListeners
    /\ ~Waiting(emitter)
    /\ emitter' = [emitter EXCEPT !.listeners = @ + 1]
    /\ last' = [op |-> "EventEmitter.on", path |-> "", ret |-> "unsubscribe"]
    /\ UNCHANGED <<now, cacheVars, pluginVars, store, engine, core, loads, tasks, peer>>

\* emit(data), made when no call of an earlier emit is waiting any more
Emit ==
    /\ ~Waiting(emitter)
    /\ emitter' = Run(Started(emitter))
    /\ last' = [op |-> "EventEmitter.emit", path |-> "started",
                ret |-> CASE emitter'.phase = "resolved" -> "resolved"
                          [] emitter'.phase = "rejected" -> "rejected"
                          [] OTHER -> "pending"]
    /\ UNCHANGED <<now, cacheVars, pluginVars, store, engine, core, loads, tasks, peer>>

\* What thread k was waiting for is there: the thread goes on
IoDone(k) ==
    /\ k \in 1..Len(emitter.threads)
    /\ emitter.threads[k].state = "io"
    /\ emitter' = Run([emitter EXCEPT !.threads[k].state = "run", !.cur = k])
    /\ last' = [op |-> "EventEmitter.emit", path |-> "resumed",
                ret |-> CASE emitter'.phase = "resolved" -> "resolved"
                          [] emitter'.phase = "rejected" -> "rejected"
                          [] OTHER -> "pending"]
    /\ UNCHANGED <<now, cacheVars, pluginVars, store, engine, core, loads, tasks, peer>>

EmitNext ==
    \/ \E middleware \in Middlewares : Use(middleware)
    \/ On
    \/ Emit
    \/ \E k \in 1..MaxMiddlewares : IoDone(k)

EmitSpec == CoreInit /\ [][EmitNext]_vars

\* Positions of the log of the emit made last where event ev is
At(ev) == {i \in 1..Len(emitter.log) : emitter.log[i].ev = ev}

\* The middlewares were invoked in the order of use, none of them twice
InOrderOnce ==
    \A i, j \in At("enter") : i < j => emitter.log[i].mw < emitter.log[j].mw

\* When a listener is invoked every middleware invoked has ended, and none is
\* invoked afterwards
ListenersAfterChain ==
    \A i \in At("listener") :
        \A j \in At("enter") :
            /\ j < i
            /\ \E k \in At("exit") \cup At("fail") :
                   j < k /\ k < i /\ emitter.log[k].mw = emitter.log[j].mw

\* After a throw of a middleware no listener is invoked and emit rejects
ThrowRejects ==
    At("throw") # {} =>
        /\ At("listener") = {}
        /\ emitter.phase \in {"running", "rejected"}
        /\ ~Waiting(emitter) => emitter.phase = "rejected"

\* C40: during one emit the middlewares run in registration order, each at
\* most once even if a middleware calls next more than once, no listener is
\* invoked before the middleware chain has finished, and a middleware that
\* throws makes emit reject without invoking any listener.
C40_ChainThenListeners == InOrderOnce /\ ListenersAfterChain /\ ThrowRejects

\* The periodic sweep is a setInterval timer: it keeps firing
CacheFairSpec == CacheInit /\ [][CacheNext]_vars /\ WF_vars(Sweep)

(***************************************************************************)
(* Claims about MemoryCache                                                *)
(***************************************************************************)
\* Positions of the entries of c whose field is the lowest of c
LowestPositions(c, field) ==
    {i \in 1..Len(c) : \A j \in 1..Len(c) : c[i][field] <= c[j][field]}

\* The first entry in iteration order among those whose field is lowest
FirstLowest(c, field) ==
    CHOOSE i \in LowestPositions(c, field) :
        \A j \in LowestPositions(c, field) : i <= j

\* c without its entry at position i, and a new entry appended
ReplacedBy(c, i, entry) ==
    Append(SelectSeq(c, LAMBDA x : x.key # c[i].key), entry)

\* set(k, v, e) is a set of a new key on a cache holding exactly maxSize entries
SetOnFull(k, v, e) ==
    /\ Set(k, v, e)
    /\ k \notin CacheKeys(cache)
    /\ Len(cache) = maxSize

\* C1: after any sequence of set, get, has, delete, clear and sweep, the number
\* of entries held by the cache never exceeds maxSize, under every eviction
\* policy.
C1_SizeWithinMax == Len(cache) <= maxSize

\* C2: under FIFO a set of a new key on a full cache removes the entry with the
\* earliest creation time and keeps all the others (maxSize=2: A, B, C leaves
\* exactly B and C).
C2_FifoEvictsEarliest ==
    [][\A k \in EvictKeys, v \in Values, e \in ExpireMsChoices :
        (evictionPolicy = "fifo" /\ last'.op = "set" /\ SetOnFull(k, v, e))
            => cache' = ReplacedBy(cache, FirstLowest(cache, "createdAt"),
                                   [key |-> k, value |-> v, expiresAt |-> now + e,
                                    createdAt |-> now, hits |-> 0])]_vars

\* C3: under LFU a set of a new key on a full cache removes the entry with the
\* lowest hit counter, the first such entry in iteration order on a tie.
C3_LfuEvictsLowestHits ==
    [][\A k \in Keys, v \in Values, e \in ExpireMsChoices :
        (evictionPolicy = "lfu" /\ last'.op = "set" /\ SetOnFull(k, v, e))
            => cache' = ReplacedBy(cache, FirstLowest(cache, "hits"),
                                   [key |-> k, value |-> v, expiresAt |-> now + e,
                                    createdAt |-> now, hits |-> 0])]_vars

\* C4: under LRU a set of a new key on a full cache removes exactly one entry,
\* the one with the smallest expiry time among the stored entries.
C4_LruEvictsNearestExpiry ==
    [][\A k \in EvictKeys, v \in Values, e \in ExpireMsChoices :
        (evictionPolicy = "lru" /\ last'.op = "set" /\ SetOnFull(k, v, e))
            => /\ Len(cache') = Len(cache)
               /\ \E i \in LowestPositions(cache, "expiresAt") :
                    CacheKeys(cache') = (CacheKeys(cache) \ {cache[i].key}) \cup {k}]_vars

\* C5: a set on a key that is already present evicts nothing: every other
\* key's entry is unchanged, in place, and only that key's entry is replaced.
C5_UpdateNeverEvicts ==
    [][last'.op = "set" => \A k \in Keys, v \in Values, e \in ExpireMsChoices :
        (last'.op = "set" /\ k \in CacheKeys(cache) /\ Set(k, v, e))
            => /\ Len(cache') = Len(cache)
               /\ \A i \in 1..Len(cache) :
                    IF cache[i].key = k
                    THEN cache'[i] = [key |-> k, value |-> v, expiresAt |-> now + e,
                                      createdAt |-> now, hits |-> 0]
                    ELSE cache'[i] = cache[i]]_vars

\* A set has just updated a key of a full cache that holds other entries too
C5_Witness ==
    /\ last.op = "set" /\ last.path = "update"
    /\ Len(cache) >= maxSize
    /\ Len(cache) >= 2

\* The entry stored under k has an expiry time that has passed
PastExpiry(k) == \E i \in 1..Len(cache) : cache[i].key = k /\ cache[i].expiresAt < now

\* The entry stored under k has not expired yet
Live(k) == \E i \in 1..Len(cache) : cache[i].key = k /\ cache[i].expiresAt >= now

StoredValue(k) == (CHOOSE x \in {cache[i] : i \in 1..Len(cache)} : x.key = k).value

\* C6: get on a key whose expiry has passed returns absent and has returns
\* false, and that access removes the entry; get on an entry that has not
\* expired returns its stored value and keeps it.
C6_ExpiredIsAbsent ==
    [][last'.op \in {"get", "has"} => \A k \in Keys :
        /\ (last'.op = "get" /\ PastExpiry(k) /\ Get(k))
              => (last'.ret = Undefined /\ k \notin CacheKeys(cache'))
        /\ (last'.op = "has" /\ PastExpiry(k) /\ Has(k))
              => (last'.ret = "false" /\ k \notin CacheKeys(cache'))
        /\ (last'.op = "get" /\ Live(k) /\ Get(k))
              => (last'.ret = StoredValue(k) /\ k \in CacheKeys(cache'))
        /\ (last'.op = "has" /\ Live(k) /\ Has(k))
              => (last'.ret = "true" /\ cache' = cache)]_vars

\* A get has just found an expired entry while another entry stays stored
C6_Witness ==
    /\ last.op = "get" /\ last.path = "expired" /\ last.ret = Undefined
    /\ Len(cache) >= 1

\* C7: every expired entry is eventually removed by the sweep even if its key
\* is never accessed again; right after a sweep no entry with expiry earlier
\* than the tick time remains and no unexpired entry was removed.
C7_SweepRemovesExpired ==
    /\ \A k \in Keys : PastExpiry(k) ~> ~PastExpiry(k)
    /\ [][(last'.op = "sweep" /\ Sweep) =>
            /\ \A i \in 1..Len(cache') : cache'[i].expiresAt >= now
            /\ cache' = SelectSeq(cache, LAMBDA x : x.expiresAt >= now)]_vars

\* A sweep has just removed an expired entry and kept an unexpired one
C7_Witness ==
    /\ last.op = "sweep" /\ last.path = "cleaned"
    /\ Len(cache) >= 1

(***************************************************************************)
(* Claims about createCacheWrapper                                         *)
(***************************************************************************)
\* What a call of the wrapper for k does when k has no live entry: fn(k) is
\* invoked; and what the settling of fn(k) stores
WrapperMissAndStore ==
    /\ \A k \in Keys, e \in ExpireMsChoices :
        (last'.op = "wrap" /\ ~Live(k) /\ WrapCall(k, e))
            => inflight' = Append(inflight, [key |-> k, expireMs |-> e])
    /\ \A i \in 1..Len(inflight), r \in FnResults :
        (last'.op = "resolve" /\ FnResolve(i, r))
            => \E j \in 1..Len(cache') :
                 cache'[j] = [key |-> inflight[i].key, value |-> r,
                              expiresAt |-> now + inflight[i].expireMs,
                              createdAt |-> now, hits |-> 0]

\* C8 as stated: a call for k with no live entry invokes fn(k) and stores its
\* result under k with the configured expiry; a later call for k while the
\* entry is live returns the stored value without invoking fn again.
C8_WrapperMemoizesAnyResult ==
    [][/\ WrapperMissAndStore
       /\ \A k \in Keys, e \in ExpireMsChoices :
            (last'.op = "wrap" /\ Live(k) /\ WrapCall(k, e))
                => (last'.ret = StoredValue(k) /\ inflight' = inflight)]_vars

\* C8, as far as the code goes: the later call returns the stored value without
\* invoking fn again provided the stored value is not undefined; a stored
\* undefined reads as a miss and fn is invoked again.
C8_WrapperMemoizesDefinedResult ==
    [][/\ WrapperMissAndStore
       /\ \A k \in Keys, e \in ExpireMsChoices :
            (last'.op = "wrap" /\ Live(k) /\ WrapCall(k, e))
                => IF StoredValue(k) # Undefined
                   THEN last'.ret = StoredValue(k) /\ inflight' = inflight
                   ELSE inflight' = Append(inflight, [key |-> k, expireMs |-> e])]_vars

\* A call of the wrapper has just been answered from the cache
C8_Witness ==
    /\ last.op = "wrap" /\ last.path = "cached" /\ last.ret = "v1"
    /\ inflight = <<>>
    /\ \E i \in 1..Len(cache) : cache[i].value = "v1" /\ cache[i].hits > 0

(***************************************************************************)
(* Claims about PluginManager                                              *)
(***************************************************************************)
\* The names under which a plugin is registered
Registered == {pm.plugins[i].key : i \in 1..Len(pm.plugins)}

\* The names in the active set
Active == {pm.activePlugins[i] : i \in 1..Len(pm.activePlugins)}

\* C9: a plugin name registers at most once: registerPlugin of a valid plugin
\* whose name is already registered, on a manager that is not disposed,
\* returns normally, starts no activation and leaves the registry, the active
\* set and both chains unchanged.
C9_DuplicateIsIgnored ==
    /\ [](Cardinality(Registered) = Len(pm.plugins))
    /\ [][last'.op = "registerPlugin" =>
            \A plugin \in PluginInputs, n \in HookRegistrations :
                (/\ plugin.valid
                 /\ plugin.name \in Registered
                 /\ ~pm.disposed
                 /\ RegisterPlugin(plugin, n))
                    => (last'.ret = "resolved" /\ pm' = pm /\ calls' = calls)]_vars

\* A registerPlugin has just returned for a name that was registered already
C9_Witness ==
    /\ last.op = "registerPlugin" /\ last.path = "duplicate" /\ last.ret = "resolved"
    /\ Registered # {}
    /\ ~pm.disposed

OthersEntries(chain, name) == SelectSeq(chain, LAMBDA x : x.pluginName # name)

\* C11: a successful unregisterPlugin(name) removes exactly the processor and
\* search-extension entries contributed by name: the entries of every other
\* plugin stay in both chains in their relative order, and every other
\* plugin's registration is unchanged.
C11_UnregisterRemovesOwnEntriesOnly ==
    [][last'.op = "unregisterPlugin" =>
        \A name \in PluginNames :
            (/\ last'.ret = "resolved"
             /\ name \in Registered
             /\ name \notin {pm'.plugins[i].key : i \in 1..Len(pm'.plugins)})
            => /\ pm'.articleProcessors = OthersEntries(pm.articleProcessors, name)
               /\ pm'.searchExtensions = OthersEntries(pm.searchExtensions, name)
               /\ pm'.plugins = SelectSeq(pm.plugins, LAMBDA x : x.key # name)
               /\ pm'.activePlugins = SelectSeq(pm.activePlugins, LAMBDA x : x # name)
               /\ pm'.disposed = pm.disposed]_vars

\* An unregisterPlugin has just succeeded and left two processors and a search
\* extension of the other plugin in the chains
C11_Witness ==
    /\ last.op = "unregisterPlugin" /\ last.path = "deactivated"
    /\ Len(pm.articleProcessors) = 2
    /\ pm.articleProcessors[1].fn # pm.articleProcessors[2].fn
    /\ Len(pm.searchExtensions) >= 1
    /\ Cardinality(Registered) = 1

\* A processArticle call is in progress or has resolved
Processing == proc.phase \in {"await", "done"}

\* A stage that returned a document whose id is the id of the input document
ValidStage(t, article) ==
    t.outcome \in {"ok", "otherId", "invalid"} /\ t.output.id = article.id

\* The document produced by the last successful stage among the first n
\* stages of trace: the input document if there is none
RECURSIVE LastSuccessful(_, _, _)
LastSuccessful(article, trace, n) ==
    IF n = 0 THEN article
    ELSE IF ValidStage(trace[n], article) THEN trace[n].output
    ELSE LastSuccessful(article, trace, n - 1)

\* a is b with some entries left out, the others in the same order
RECURSIVE IsSubSeq(_, _)
IsSubSeq(a, b) ==
    IF a = <<>> THEN TRUE
    ELSE IF b = <<>> THEN FALSE
    ELSE IF Head(a) = Head(b) THEN IsSubSeq(Tail(a), Tail(b))
    ELSE IsSubSeq(a, Tail(b))

\* C12: processArticle applies the processors in the order in which they were
\* registered (the chain grows at its end only and a removal keeps the order of
\* the rest; the stages of a call are the entries of the chain, in order), and
\* each processor receives the output of the last successful earlier stage.
C12_ProcessorsRunInOrder ==
    /\ [][\/ IsSubSeq(pm'.articleProcessors, pm.articleProcessors)
          \/ \E e \in [pluginName : PluginNames, fn : Fns] :
                pm'.articleProcessors = Append(pm.articleProcessors, e)]_vars
    /\ [](Processing =>
            /\ \A j \in 1..Len(proc.trace) :
                 proc.trace[j].input = LastSuccessful(proc.article, proc.trace, j - 1)
            /\ proc.phase = "await" =>
                 \A j \in 1..Len(proc.trace) :
                    proc.trace[j].entry = ChainArray(proc, pm.articleProcessors)[j])

\* C13: when a processor throws, rejects or times out, the call goes on with
\* the document it had (the failed stage contributes nothing), every later
\* processor is still invoked, and processArticle resolves with a document.
C13_FailedProcessorIsSkipped ==
    [][(/\ last'.op = "processArticle"
        /\ proc.phase = "await"
        /\ Len(proc'.trace) = Len(proc.trace) + 1
        /\ proc'.trace[Len(proc'.trace)].outcome \in {"throw", "timeout"})
       => /\ proc'.processed = proc.processed
          /\ last'.ret # "rejected"
          /\ IF proc.i < Len(ChainArray(proc, pm.articleProcessors))
             THEN proc'.phase = "await" /\ proc'.i = proc.i + 1
             ELSE /\ proc'.phase = "done" /\ last'.ret = "resolved"
                  /\ proc'.processed.id \notin {"", Undefined}]_vars

\* A call has resolved in which the first processor failed and the second ran
\* on the input document
C13_Witness ==
    /\ proc.phase = "done"
    /\ Len(proc.trace) = 2
    /\ proc.trace[1].outcome \in {"throw", "timeout"}
    /\ proc.trace[2].outcome = "ok"
    /\ proc.trace[2].input = proc.article
    /\ proc.processed = proc.trace[2].output

\* C14: a result that is no object whose id is the id of the document being
\* processed is discarded and the previous stage's document flows on; hence
\* the document processArticle returns has the id of the input document.
C14_ResultKeepsId ==
    Processing =>
        /\ proc.processed.id = proc.article.id
        /\ \A j \in 1..Len(proc.trace) :
             ~ValidStage(proc.trace[j], proc.article) =>
                (IF j < Len(proc.trace) THEN proc.trace[j + 1].input
                 ELSE proc.processed) = proc.trace[j].input

\* C15: the processor chain never holds more than maxProcessors entries, and
\* a registerArticleProcessor on a chain at the cap leaves the chain (and the
\* manager) unchanged.
C15_ChainWithinCap ==
    /\ [](Len(pm.articleProcessors) <= config.maxProcessors)
    /\ [][last'.op = "registerArticleProcessor" =>
            \A name \in PluginNames, fn \in Fns :
                (/\ Len(pm.articleProcessors) >= config.maxProcessors
                 /\ RegisterArticleProcessor(name, fn))
                => pm' = pm]_vars

\* A registration has just been ignored on a chain at the cap
C15_Witness ==
    /\ last.op = "registerArticleProcessor" /\ last.path = "ignored"
    /\ Len(pm.articleProcessors) = config.maxProcessors
    /\ ~pm.disposed

\* The results of the stages of trace that returned, in order; undefined
\* stands in the list for a stage that returned undefined
RECURSIVE ReturnedResults(_, _)
ReturnedResults(query, trace) ==
    IF trace = <<>> THEN <<>>
    ELSE LET t == Head(trace)
             rest == ReturnedResults(query, Tail(trace))
         IN CASE t.outcome = "value" -> <<(<<t.entry.fn, query>>)>> \o rest
              [] t.outcome = "undefined" -> <<Undefined>> \o rest
              [] OTHER -> rest

\* The results of the stages of trace that returned a value, in order
RECURSIVE DefinedResults(_, _)
DefinedResults(query, trace) ==
    IF trace = <<>> THEN <<>>
    ELSE LET t == Head(trace)
             rest == DefinedResults(query, Tail(trace))
         IN IF t.outcome = "value" THEN <<(<<t.entry.fn, query>>)>> \o rest
            ELSE rest

\* Every extension of the chain is invoked, in chain order, with the query of
\* the call, whatever the earlier extensions did
ExtensionsAllRunInOrder ==
    /\ [](search.phase \in {"await", "done"} =>
            \A j \in 1..Len(search.trace) : search.trace[j].input = search.query)
    /\ [](search.phase = "await" =>
            \A j \in 1..Len(search.trace) :
                search.trace[j].entry = ChainArray(search, pm.searchExtensions)[j])
    /\ [][(search.phase = "await" /\ search'.phase = "done")
            => Len(search'.trace) = Len(ChainArray(search, pm.searchExtensions))]_vars

\* C16 as stated: executeSearchExtensions invokes every extension in
\* registration order with the same query and returns the list of their
\* results in that order; an extension that throws or times out contributes no
\* element and does not stop the later ones.
C16_ResultsOfAllExtensions ==
    /\ ExtensionsAllRunInOrder
    /\ [](search.phase = "done" =>
            search.results = ReturnedResults(search.query, search.trace))

\* C16 amended: the list holds the results other than undefined, in that
\* order; an extension that returns undefined, throws or times out
\* contributes no element and does not stop the later ones.
C16_DefinedResultsOfAllExtensions ==
    /\ ExtensionsAllRunInOrder
    /\ [](search.phase = "done" =>
            search.results = DefinedResults(search.query, search.trace))

\* A call has resolved in which the first extension failed and the second
\* returned a value, the only element of the list
C16_Witness ==
    /\ search.phase = "done"
    /\ Len(search.trace) = 2
    /\ search.trace[1].outcome \in {"throw", "timeout"}
    /\ search.trace[2].outcome = "value"
    /\ Len(search.results) = 1

(***************************************************************************)
(* Claims about SearchEngine.indexArticles                                 *)
(***************************************************************************)
\* A document indexArticles accepts
Indexable(d) == d.id # Undefined /\ d.title # <<>> /\ d.content # <<>>

\* The weight field number n of document d gives to word (0 if it is absent)
FieldWeight(word, d, n) ==
    LET item == IndexItems(d)[n]
    IN IF \E j \in 1..Len(item.content) : ToLowerCase(item.content[j]) = word
       THEN item.weight ELSE 0

\* The weight the documents of list under id give to word, all fields counted
RECURSIVE RangeWeight(_, _, _, _, _)
RangeWeight(word, id, list, lo, hi) ==
    IF lo > hi THEN 0
    ELSE IF lo = hi
    THEN LET d == list[lo]
         IN IF Indexable(d) /\ d.id = id
            THEN FieldWeight(word, d, 1) + FieldWeight(word, d, 2)
                 + FieldWeight(word, d, 3) + FieldWeight(word, d, 4)
                 + FieldWeight(word, d, 5)
            ELSE 0
    ELSE RangeWeight(word, id, list, lo, (lo + hi) \div 2)
         + RangeWeight(word, id, list, (lo + hi) \div 2 + 1, hi)

ListWeight(word, id, list) == RangeWeight(word, id, list, 1, Len(list))

\* Every posting and every cached document of e comes from the documents of
\* list: the posting's document is in the list under that id and holds the
\* word, its text is a field of such a document, and its weight is what a
\* prefix of the list gives the word
DerivedFrom(e, list) ==
    /\ \A k \in 1..Len(e.index) : \A n \in 1..Len(e.index[k].value) :
          LET word == e.index[k].key
              p == e.index[k].value[n]
          IN /\ \E i \in 1..Len(list) :
                   /\ Indexable(list[i])
                   /\ list[i].id = p.articleId
                   /\ \E f \in 1..5 :
                         /\ FieldWeight(word, list[i], f) > 0
                         /\ IndexItems(list[i])[f].content = p.content
             /\ \E m \in 1..Len(list) :
                   p.weight = Min(ListWeight(word, p.articleId,
                                             SubSeq(list, 1, m)), MaxWeight)
    /\ \A k \in 1..Len(e.articles) :
          \E i \in 1..Len(list) :
              /\ Indexable(list[i])
              /\ e.articles[k].key = list[i].id
              /\ e.articles[k].value = list[i]

\* C20: after indexArticles(D2) following indexArticles(D1), the postings and
\* the document cache hold only entries derived from D2: no posting, weight
\* or cached document comes from a document or a word occurrence of D1 alone.
C20_RebuildKeepsNothingOld ==
    [][\A articles \in DocLists :
          (IndexArticles(articles) /\ ~engine.disposed)
              => DerivedFrom(engine', articles)]_vars

\* indexArticles has rebuilt an engine that held an index, and the new index
\* holds postings
C20_Witness ==
    /\ last.op = "SearchEngine.indexArticles"
    /\ last.path = "reindexed"
    /\ engine.index # <<>>
    /\ engine.articles # <<>>

(***************************************************************************)
(* Claims about BlogCore.initialize                                        *)
(***************************************************************************)
\* C18: for any interleaving of initialize calls on one engine, at most one
\* call is in the document load loop at a time, and a call made while an
\* initialization is in progress or after a successful one returns without
\* touching the store, the index or the flags.
C18_OneLoadAtATime ==
    /\ [](Len(loads) <= 1)
    /\ [][\A items \in ItemLists \cup {NotAnItemArray} :
             (/\ Initialize(items)
              /\ ~core.disposed
              /\ core.initializing \/ core.initialized)
                 => /\ last'.ret = "resolved"
                    /\ store' = store
                    /\ engine' = engine
                    /\ core' = core
                    /\ loads' = loads]_vars

\* initialize has returned at once because another call is loading
C18_Witness ==
    /\ last.op = "BlogCore.initialize"
    /\ last.path = "inProgress"
    /\ Len(loads) = 1
    /\ core.initializing

Rejected(ret) == ret \in {"throw", "rejected"}

\* A call of a public operation of the store other than dispose
StoreCall ==
    \/ \E article \in DisposeDocs : AddArticle(article)
    \/ \E id \in {"a", ""} : CreateArticle(id, <<"w">>)
    \/ \E op \in StoreReadOps : StoreRead(op)
    \/ StoreClear

\* A call of a public operation of the search engine other than dispose
EngineCall ==
    \/ \E articles \in DisposeLists : IndexArticles(articles)
    \/ \E op \in EngineReadOps : EngineRead(op)
    \/ EngineClear

\* A call of a public operation of the plugin manager other than dispose
PluginCall ==
    \/ \E name \in NameInputs : UnregisterPlugin(name)
    \/ \E fn \in {HookFn, NotAFunction} : RegisterArticleProcessor("p", fn)
    \/ \E op \in PluginReadOps : PluginRead(op)
    \/ PluginCleanup

\* A call of a public operation of the engine other than dispose
CoreCall ==
    \/ \E items \in DisposeItems : Initialize(items)
    \/ IsInitialized
    \/ \E op \in CoreReadOps : CoreRead(op)
    \/ CoreCleanup

\* C17: once dispose has completed on a component (store, search engine,
\* plugin manager, engine), every later call of a public operation of that
\* component is rejected with an error and changes no state.  A second
\* dispose is left out here.
C17_DisposedRejectsEveryCall ==
    [][/\ (store.disposed /\ StoreCall)
             => (Rejected(last'.ret) /\ store' = store)
       /\ (engine.disposed /\ EngineCall)
             => (Rejected(last'.ret) /\ engine' = engine)
       /\ (pm.disposed /\ PluginCall)
             => (Rejected(last'.ret) /\ pm' = pm)
       /\ (core.disposed /\ CoreCall)
             => (/\ Rejected(last'.ret)
                 /\ core' = core /\ store' = store /\ engine' = engine
                 /\ pm' = pm)]_vars
\* C21: indexArticles is idempotent: a second indexArticles with the list of
\* the call just before it leaves the index and the document cache as the
\* first call left them, and every query has the same results after both
C21_IndexTwiceIsIndexOnce ==
    [][\A articles \in SearchLists :
          IndexedJustBefore(articles) /\ IndexArticles(articles)
          => /\ engine' = engine
             /\ \A query \in SearchQueries :
                   SearchResults(engine', query) = SearchResults(engine, query)]_vars

\* A populated index was rebuilt from the list that had built it
C21_Witness ==
    /\ last.op = "SearchEngine.indexArticles"
    /\ last.again
    /\ Len(last.articles) = 2
    /\ Len(engine.articles) = 2
    /\ Len(SearchResults(engine, <<"go">>)) = 2

\* C22: in every reachable index each posting list holds at most one posting
\* per document id and no posting weighs more than 1000; after an
\* indexArticles call the weight of a posting is the sum of the weights of the
\* fields of the documents of that id in which the word occurs, capped at 1000:
\* a word in several fields adds to the one posting
C22_OnePostingPerDocument ==
    /\ [](\A k \in 1..Len(engine.index) :
            LET list == engine.index[k].value
            IN /\ \A i, j \in 1..Len(list) :
                     list[i].articleId = list[j].articleId => i = j
               /\ \A i \in 1..Len(list) : list[i].weight <= MaxWeight)
    /\ [][\A articles \in SearchLists :
             (last'.op = "SearchEngine.indexArticles" /\ last'.articles = articles
              /\ IndexArticles(articles))
             => \A k \in 1..Len(engine'.index) :
                   \A n \in 1..Len(engine'.index[k].value) :
                      LET p == engine'.index[k].value[n]
                      IN p.weight = Min(ListWeight(engine'.index[k].key,
                                                   p.articleId, articles),
                                        MaxWeight)]_vars

\* The posting of a word that occurs in all five fields of a document listed
\* many times has reached the cap
C22_Witness ==
    /\ last.op = "SearchEngine.indexArticles"
    /\ last.articles = Copies
    /\ \E k \in 1..Len(engine.index) :
          /\ Len(engine.index[k].value) = 1
          /\ engine.index[k].value[1].weight = MaxWeight

(***************************************************************************)
(* Claims about SearchEngine.search                                        *)
(***************************************************************************)
\* The single terms searched for
SearchTerms == {"go", "rust", "gopher", "t50", "t51"}

\* The weights of title, description, tags, categories and body
FieldWeights == <<10, 5, 4, 4, 1>>

FieldTexts(d) == <<d.title, d.description, d.tags, d.categories, d.content>>

Occurs(word, text) == \E j \in 1..Len(text) : text[j] = word

\* The sum of the weights of the fields of d in whose text term occurs
OccurrenceWeight(term, d) ==
    LET w(n) == IF Occurs(term, [j \in 1..Len(FieldTexts(d)[n]) |->
                                    ToLowerCase(FieldTexts(d)[n][j])])
                THEN FieldWeights[n] ELSE 0
    IN w(1) + w(2) + w(3) + w(4) + w(5)

\* The sum of the weights of the fields of d among whose tokens term is
TokenWeight(term, d) ==
    LET w(n) == IF Occurs(term, Tokenize(FieldTexts(d)[n]))
                THEN FieldWeights[n] ELSE 0
    IN w(1) + w(2) + w(3) + w(4) + w(5)

\* TokenWeight summed over the documents lo..hi of list that carry id
RECURSIVE TokenListWeight(_, _, _, _, _)
TokenListWeight(term, id, list, lo, hi) ==
    IF lo > hi THEN 0
    ELSE IF lo = hi
    THEN IF Indexable(list[lo]) /\ list[lo].id = id
         THEN TokenWeight(term, list[lo]) ELSE 0
    ELSE TokenListWeight(term, id, list, lo, (lo + hi) \div 2)
         + TokenListWeight(term, id, list, (lo + hi) \div 2 + 1, hi)

\* No other key of the index starts with term
NoLongerKey(index, term) ==
    \A k \in 1..Len(index) :
        StartsWith(index[k].key, term) => index[k].key = term

C24_ResultsBoundedSortedDistinct ==
    last.op = "SearchEngine.search"
    => LET results == last.results
       IN /\ Len(results) <= (IF engine.maxResults < 1 THEN 1
                               ELSE engine.maxResults)
          /\ \A i, j \in 1..Len(results) :
                results[i].article.id = results[j].article.id => i = j
          /\ \A i, j \in 1..Len(results) :
                i < j => results[i].score >= results[j].score
          /\ \A i \in 1..Len(results) :
                /\ \E k \in 1..Len(engine.articles) :
                      engine.articles[k].value = results[i].article
                /\ Len(results[i].highlights) <= 10

\* A search with twelve keywords on an engine limited to one result has
\* returned the document indexed second, with its highlights cut to ten
C24_Witness ==
    /\ last.op = "SearchEngine.search"
    /\ last.query = TwelveWords
    /\ engine.maxResults = 1
    /\ Len(engine.articles) = 2
    /\ engine.articles[2].key = "c"
    /\ Len(last.results) = 1
    /\ last.results[1].article.id = "c"
    /\ Len(last.results[1].highlights) = 10

\* C25: on an engine that is not disposed, search with a query that is no
\* string or is shorter than the configured minimum length returns an empty
\* list, does not throw and leaves the index and the document cache unchanged
C25_RejectedQueryReturnsEmpty ==
    [][\A query \in SearchQueries :
          (/\ last'.op = "SearchEngine.search"
           /\ last'.query = query
           /\ EngineSearch(query)
           /\ ~engine.disposed
           /\ \/ query = NotAString
              \/ QueryLength(query) < engine.minSearchLength)
          => /\ last'.results = <<>>
             /\ last'.ret = "value"
             /\ engine'.index = engine.index
             /\ engine'.articles = engine.articles]_vars

\* A query of two characters that is an indexed word was searched for on an
\* engine with a minimum length of 3
C25_Witness ==
    /\ last.op = "SearchEngine.search"
    /\ last.query = <<"go">>
    /\ last.path = "short"
    /\ engine.minSearchLength = 3
    /\ MapHas(engine.index, "go")
    /\ last.results = <<>>

(***************************************************************************)
(* Claims about SearchEngine.tokenize                                      *)
(***************************************************************************)
\* C26: tokenize returns at most 50 tokens, no two of them equal, each of 1
\* to 99 characters; a text that is one word of 100 characters or more yields
\* no token, and 50 distinct words yield at most 50 tokens
C26_TokensBoundedDistinctShort ==
    last.op = "SearchEngine.tokenize"
    => /\ Len(last.tokens) <= 50
       /\ \A i, j \in 1..Len(last.tokens) :
             last.tokens[i] = last.tokens[j] => i = j
       /\ \A i \in 1..Len(last.tokens) :
             WordLength(last.tokens[i]) \in 1..99
       /\ last.text = <<LongWord>> => last.tokens = <<>>

\* A text of 51 distinct words was cut to its first 50
C26_Witness ==
    /\ last.op = "SearchEngine.tokenize"
    /\ last.text = FiftyOneWords
    /\ last.tokens = SubSeq(FiftyOneWords, 1, 50)

(***************************************************************************)
(* Claims about the read operations of ArticleManager                      *)
(***************************************************************************)
\* The documents of the store that are no drafts
Published(s) ==
    SelectSeq([i \in 1..Len(s.articles) |-> s.articles[i].value],
              LAMBDA a : ~a.draft)

\* How often key occurs in the tags or categories of the published documents
PublishedCount(s, field, key) ==
    LET all == Flatten([i \in 1..Len(Published(s)) |-> Published(s)[i][field]],
                       1, Len(Published(s)))
    IN Cardinality({j \in 1..Len(all) : all[j] = key})

\* C27: on a store that is not configured to include drafts, no read
\* operation returns a draft, and the statistics count published documents
\* only
C27_NoReadReturnsDraft ==
    (last.op \in StoreReadOps /\ last.ret = "value" /\ ~store.includeDrafts)
    => /\ \A i \in 1..Len(last.result.docs) : ~last.result.docs[i].draft
       /\ last.op = "ArticleManager.getArticleList"
          => last.result.total <= Len(Published(store))
       /\ last.op = "ArticleManager.getTagStats"
          => \A k \in 1..Len(last.result.counts) :
                last.result.counts[k].value =
                    PublishedCount(store, "tags", last.result.counts[k].key)
       /\ last.op = "ArticleManager.getCategoryStats"
          => \A k \in 1..Len(last.result.counts) :
                last.result.counts[k].value =
                    PublishedCount(store, "categories", last.result.counts[k].key)
       /\ last.op = "ArticleManager.getStats"
          => last.result.counts[1].value = Len(Published(store))

\* The filtered documents in sorted order, before pagination
SortedFiltered(s, call) ==
    GetArticleList(s, call.filter, [call.options EXCEPT !.given = FALSE]).items

\* The elements of seq at the positions lo (counted from 0) up to hi, hi left
\* out
Between(seq, lo, hi) ==
    LET first == IF lo < 0 THEN 0 ELSE lo
        end == IF hi > Len(seq) THEN Len(seq) ELSE hi
    IN IF end <= first THEN <<>> ELSE SubSeq(seq, first + 1, end)

\* C28: getArticleList returns as total the number of documents that pass
\* the filter and as filtered the number of returned items; with page and
\* pageSize given, the items are the slice from (page-1)*pageSize up to
\* page*pageSize of the filtered documents in sorted order, so filtered is
\* at most pageSize
C28_ListIsPageOfSortedFiltered ==
    (last.op = "ArticleManager.getArticleList" /\ last.ret = "value")
    => LET all == SortedFiltered(store, last.call)
           page == last.call.options.page
           pageSize == last.call.options.pageSize
       IN /\ last.result.total = Len(all)
          /\ last.result.filtered = Len(last.result.docs)
          /\ (last.call.options.given /\ page >= 0)
             => /\ last.result.docs = Between(all, (page - 1) * pageSize,
                                              page * pageSize)
                /\ last.result.filtered <= pageSize

(***************************************************************************)
(* Claims about createArticleFromMarkdown                                  *)
(***************************************************************************)
\* The content "---\ntitle: Hello\ntags: [x,y]\n---\nBody text"
HelloContent ==
    <<Fence, Pair("title", "Hello"), Pair("tags", "[x,y]"), Fence,
      TextLine("Body text")>>

\* C29: createArticleFromMarkdown("a", HelloContent) yields a document with
\* id "a", title "Hello", the tags x and y and the body "Body text"
C29_BracketedTagsAreParsed ==
    (/\ last.op = "ArticleManager.createArticleFromMarkdown"
     /\ last.id = "a"
     /\ last.lines = HelloContent)
    => /\ last.ret = "article"
       /\ last.article.id = "a"
       /\ last.article.title = "Hello"
       /\ last.article.tags = <<"x", "y">>
       /\ last.article.content = <<"Body text">>


\* C30: a plugin call that settles only after its deadline fired has no
\* effect. When the timer of a processor fires, processArticle goes on with
\* the document of the previous stage, and when the timer of an activation
\* fires the plugin is not registered; when the hook settles afterwards,
\* whatever it settles with, the registry, the active set, both chains and the
\* calls in progress (their document, their results, their position) stay as
\* they are.
C30_LateResultIsDiscarded ==
    [][/\ (last'.op = "processArticle" /\ last'.path = "timeout")
            => proc'.processed = proc.processed
       /\ (last'.op = "registerPlugin" /\ last'.path = "timeout")
            => (pm' = pm)
       /\ (last'.op = "withTimeout" /\ hung' # hung)
            => (pm' = pm /\ proc' = proc /\ search' = search /\ calls' = calls)]_vars

\* The activation of p timed out and its hook resolved afterwards, p being in
\* neither the registry nor the active set; the first processor of a finished
\* processArticle timed out and settled afterwards too, the second one having
\* been given the original document
C30_Witness ==
    /\ last.op = "withTimeout"
    /\ last.hook.kind = "register"
    /\ last.ret = "resolved"
    /\ ~IsRegistered(pm, last.hook.plugin.name)
    /\ pm.activePlugins = <<>>
    /\ hung = {}
    /\ proc.phase = "done"
    /\ Len(proc.trace) = 2
    /\ proc.trace[1].outcome = "timeout"
    /\ proc.trace[2].outcome = "ok"
    /\ proc.trace[2].input = proc.article
    /\ proc.processed = proc.trace[2].output


(***************************************************************************)
(* Claims about rebuilds of the index                                      *)
(***************************************************************************)
\* Every document of list that indexArticles accepts is cached by e under its
\* id, and each token of each of its fields has a posting for it
Covers(e, list) ==
    \A i \in 1..Len(list) :
        Indexable(list[i]) =>
            /\ MapHas(e.articles, list[i].id)
            /\ \A f \in 1..5 :
                  LET words == Tokenize(IndexItems(list[i])[f].content)
                  IN \A j \in 1..Len(words) :
                        /\ MapHas(e.index, words[j])
                        /\ \E p \in 1..Len(MapGet(e.index, words[j]).value) :
                              MapGet(e.index, words[j]).value[p].articleId = list[i].id

\* The documents of the store, in the order of its Map
StoredDocs(s) == [k \in 1..Len(s.articles) |-> s.articles[k].value]

\* C31: the index changes only in whole rebuilds. A step that changes the
\* index or the document cache of the search engine is an indexArticles call
\* that leaves the complete index of its list, or the end of an initialize
\* call: the one that leaves the engine initialized, with the complete index
\* of the documents that are in the store, no document being awaited any
\* more, or the one that failed and leaves the index empty. A search in
\* between answers from the index as it stands and changes nothing.
C31_IndexChangesOnlyInWholeRebuilds ==
    [][/\ engine' # engine =>
            \/ /\ last'.op = "SearchEngine.indexArticles"
               /\ DerivedFrom(engine', last'.articles)
               /\ Covers(engine', last'.articles)
            \/ /\ last'.op = "BlogCore.initialize"
               /\ last'.path = "loaded"
               /\ last'.ret = "resolved"
               /\ core'.initialized /\ ~core'.initializing
               /\ Len(loads') < Len(loads)
               /\ engine'.articles = store'.articles
               /\ Covers(engine', StoredDocs(store'))
            \/ /\ last'.op = "BlogCore.initialize"
               /\ last'.path = "failed"
               /\ engine'.index = <<>>
               /\ engine'.articles = <<>>
       /\ (last'.op = "SearchEngine.search" /\ last' # last) =>
            /\ engine' = engine
            /\ last'.results = SearchResults(engine', last'.query)]_vars

\* A search ran while initialize was awaiting its second document, the first
\* one being in the store already: it answered from the index built by an
\* earlier indexArticles, which holds another document only
C31_Witness ==
    /\ last.op = "SearchEngine.search"
    /\ Len(loads) = 1
    /\ loads[1].i = 2
    /\ core.initializing
    /\ MapHas(store.articles, "a")
    /\ ~MapHas(engine.articles, "a")
    /\ MapHas(engine.articles, "c")
    /\ Len(last.results) = 1


(***************************************************************************)
(* Claims about the registry of the PluginManager                          *)
(***************************************************************************)
\* Plugin name has no entry in the registry, the active set or the chains of m
Gone(m, name) ==
    /\ ~IsRegistered(m, name)
    /\ \A j \in 1..Len(m.activePlugins) : m.activePlugins[j] # name
    /\ \A j \in 1..Len(m.articleProcessors) : m.articleProcessors[j].pluginName # name
    /\ \A j \in 1..Len(m.searchExtensions) : m.searchExtensions[j].pluginName # name

\* C32: once unregisterPlugin(name) of a registered plugin has settled, its
\* deactivation hook having returned, thrown or timed out, the plugin is
\* neither registered nor active and none of its processors or search
\* extensions is left in the chains.
C32_UnregisteredWhateverTheHook ==
    [][\A i \in 1..Len(calls) :
          (/\ calls[i].kind = "unregister"
           /\ calls' = Settled(calls, i)
           /\ last'.op = "unregisterPlugin"
           /\ last'.path \in {"deactivated", "failed", "timeout"})
              => Gone(pm', calls[i].plugin.name)]_vars


(***************************************************************************)
(* Claims about concurrent calls of BlogCore.initialize                    *)
(***************************************************************************)
\* A non-empty array of items that are all loadable
ValidItems(items) ==
    /\ items # <<>>
    /\ items # NotAnItemArray
    /\ \A i \in 1..Len(items) : items[i].kind = "doc" /\ items[i].id # ""

\* C33: concurrent calls of initialize share one outcome: whenever an
\* initialize call handed a non-empty array of loadable items resolves on an
\* engine that is not disposed, the engine is initialized, so a call made
\* while another one is loading does not resolve before that one is through.
C33_ResolvedMeansInitialized ==
    [][(last'.op = "BlogCore.initialize" /\ last'.ret = "resolved" /\ ~core'.disposed)
          => /\ \A items \in ItemLists :
                    (ValidItems(items) /\ Initialize(items)) => core'.initialized
             /\ \A k \in 1..Len(loads) :
                    (/\ ValidItems(loads[k].items)
                     /\ Len(loads') < Len(loads)
                     /\ \E outcome \in ProcessResults : LoadSettled(k, outcome))
                        => core'.initialized]_vars


\* C34: in every reachable state the active set holds the names of the
\* registry and no other, and a name enters them only in the step in which
\* the activation hook of a pending registerPlugin of that name settles
\* successfully, its timer not having fired.
C34_ActiveIsRegistered ==
    /\ [](Active = Registered /\ Len(pm.activePlugins) = Len(pm.plugins))
    /\ [][\A name \in PluginNames :
             (name \notin Registered
                /\ name \in {pm'.plugins[j].key : j \in 1..Len(pm'.plugins)})
                => /\ last'.op = "registerPlugin"
                   /\ last'.path = "activated"
                   /\ last'.ret = "resolved"
                   /\ \E i \in 1..Len(calls) :
                         /\ calls[i].kind = "register"
                         /\ calls[i].plugin.name = name
                         /\ calls' = Settled(calls, i)]_vars

\* Both plugins are registered and active, the second activation having just
\* resolved
C34_Witness ==
    /\ last.op = "registerPlugin" /\ last.path = "activated"
    /\ Registered = PluginNames
    /\ Active = PluginNames
    /\ ~pm.disposed


\* The names of the plugins whose activation hook is awaited
Activating == {calls[i].plugin.name : i \in {j \in 1..Len(calls) : calls[j].kind = "register"}}

\* C35: in every reachable state each entry of the processor chain and of the
\* search-extension chain carries the name of a plugin that is registered or
\* whose activation is pending: a plugin whose activation threw or timed
\* out, or that was unregistered, has no entry in either chain.
C35_ChainEntriesHaveLivePlugin ==
    /\ \A j \in 1..Len(pm.articleProcessors) :
          pm.articleProcessors[j].pluginName \in Registered \cup Activating
    /\ \A j \in 1..Len(pm.searchExtensions) :
          pm.searchExtensions[j].pluginName \in Registered \cup Activating


\* C36: of two registerPlugin calls with the same plugin name that overlap,
\* only one runs the activation hook: no two activations of one name are
\* ever pending together, and a registerPlugin made while an activation of
\* its name is pending adds nothing to the chains.
C36_OneActivationPerName ==
    /\ [](\A i, j \in 1..Len(calls) :
             (i # j /\ calls[i].kind = "register" /\ calls[j].kind = "register")
                => calls[i].plugin.name # calls[j].plugin.name)
    /\ [][\A name \in Activating :
             (last'.op = "registerPlugin" /\ Len(calls') > Len(calls)
                /\ calls'[Len(calls')].plugin.name = name)
                => /\ pm'.articleProcessors = pm.articleProcessors
                   /\ pm'.searchExtensions = pm.searchExtensions]_vars


(***************************************************************************)
(* Claims about a second dispose and about what dispose reaches            *)
(***************************************************************************)
\* C37: dispose called on a component that is disposed already (the store,
\* the search engine, the plugin manager, the engine) is a no-op: the call
\* returns without throwing and no component changes.
C37_SecondDisposeIsNoOp ==
    [][/\ (last'.op = "ArticleManager.dispose" /\ store.disposed /\ StoreDispose)
            => (last'.ret = "void" /\ store' = store)
       /\ (last'.op = "SearchEngine.dispose" /\ engine.disposed /\ EngineDispose)
            => (last'.ret = "void" /\ engine' = engine)
       /\ (last'.op = "dispose" /\ pm.disposed /\ Dispose)
            => (last'.ret = "resolved" /\ pm' = pm)
       /\ (last'.op = "BlogCore.dispose" /\ core.disposed /\ CoreDispose)
            => (last'.ret = "resolved" /\ core' = core /\ store' = store
                    /\ engine' = engine /\ pm' = pm)]_vars


\* C39: once dispose() of the engine has completed, its store, its search
\* engine and its own plugin manager are all disposed, so that a later call
\* on blog.plugins is rejected.
C39_DisposeReachesAllThree ==
    core.disposed => (store.disposed /\ engine.disposed /\ pm.disposed)


(***************************************************************************)
(* Claims about two BlogCore instances                                     *)
(***************************************************************************)
\* C38: two engines are independent: a call on the second one (a document
\* added through it, its cleanup, its dispose) changes neither the documents
\* nor the index the first one works on, and does not dispose them.
C38_PeerLeavesFirstAlone ==
    [][last'.op \in PeerOps => (store' = store /\ engine' = engine)]_vars

====
